---- MODULE Spec2Model ----
(***************************************************************************)
(* A model of the message queue of sosloan/enhanced-chat-system: the       *)
(* in-memory MessageQueue (src/message_queue.py) and the RedisMessageQueue *)
(* (src/redis_message_queue.py), with the consumer loop process_messages.  *)
(*                                                                         *)
(* The variable backend says which of the two classes was constructed; it  *)
(* is chosen in the initial state and never changes.  With the in-memory   *)
(* backend queue, processing and dead_letter hold Message records; with    *)
(* the Redis backend they hold the JSON text the code stores (modelled as  *)
(* a tuple), and every read goes through from_json.                        *)
(***************************************************************************)
EXTENDS Integers, Sequences, FiniteSets, TLC

\* Number of Message objects the producer constructs in a run.
MaxMsgs == 2

\* Message.max_retries, the dataclass default.
DefaultMaxRetries == 3

\* The ids callers give to messages (str(i) in the producers of the repository).
Ids == {"0", "1"}

\* Payload shapes a caller enqueues: a dict of JSON-native values and a dict
\* holding a tuple.  json.loads gives a third shape back for the latter, a dict
\* holding a list ("dict_list").
Payloads == {"dict_str", "dict_tuple"}

\* The values of max_retries a caller constructs messages with.
RetryChoices == 1..DefaultMaxRetries

Backends == {"memory", "redis"}

VARIABLES
    backend,      \* "memory": MessageQueue, "redis": RedisMessageQueue
    queue,        \* self.queue / the list at queue_key (pending)
    processing,   \* self.processing / the hash at processing_key
    dead_letter,  \* self.dead_letter / the list at dead_letter_key
    clock,        \* datetime.now() of the last Message constructed
    reused,       \* history: an enqueue gave an id some collection then held
    lastOp,       \* the last call made on the queue: [op, id]
    arg,          \* the message given to that call, when it was an enqueue
    ret,          \* what that call returned: <<>> for None, <<m>> for a Message
    acked,        \* history: timestamps of the messages an ack removed
    delivered,    \* history: timestamp -> number of times dequeue returned it
    nacked,       \* history: timestamp -> number of nacks that found it
    lastFresh,    \* history: timestamp of the last never-nacked message dequeued
    waitFor,      \* history: <<a, b>>: a was pending when b was requeued by nack
    tasks,        \* the consumer tasks running process_messages
    handler,      \* timestamp -> what the handler can do with that message
    buffer,       \* MessageBuffer.buffer: the items of the asyncio.Queue
    batch_sizes,  \* MessageBuffer.batch_sizes
    putters,      \* the tasks calling MessageBuffer.put
    issued,       \* number of put calls made so far; message i is the i-th
    batch,        \* what the last get_batch returned
    got,          \* history: the messages get_batch has returned, in order
    processor,    \* the class whose process_batch runs
    concurrent_limit, \* self.concurrent_limit
    messages,     \* len(messages) of the process_batch call; message m is the m-th
    pb,           \* the process_batch call: [pc, i, step, processed, failed]
    inv,          \* message -> state of its process_message invocation
    calls,        \* history: message -> number of process_message invocations
    processing_window, \* self.processing_window, in millionths of a second
    batch_size,   \* self.batch_size
    cycles,       \* number of _optimize_processing_params calls made
    metrics,      \* the metrics a run calls it with at every cycle, in hundredths
    bp,           \* the BatchProcessor and its process_batch call
    loop,         \* a queue-driven evolution loop: its class, position and counters
    remote        \* a RedisMessageQueue given the same calls as the MessageQueue

\* The state of the MessageBuffer and of its callers.
ioVars == <<buffer, batch_sizes, putters, issued, batch, got>>

\* The state of a processor running process_batch.
pbVars == <<processor, concurrent_limit, messages, pb, inv, calls>>

\* The parameters the adaptation cycle of a processor sets, and its metrics.
apVars == <<processing_window, batch_size, cycles, metrics>>

\* The variables the queue's operations and the consumer loop leave alone.
rest == <<handler, ioVars, pbVars, apVars, bp, loop, remote>>

vars == <<backend, queue, processing, dead_letter, clock, reused, lastOp, arg, ret,
          acked, delivered, nacked, lastFresh, waitFor, tasks, rest>>

-----------------------------------------------------------------------------
(* Message and its JSON form *)

\* Message(id, payload, timestamp): retries and max_retries as constructed.
Message(id, payload, ts, maxr) ==
    [id |-> id, payload |-> payload, timestamp |-> ts,
     retries |-> 0, max_retries |-> maxr]

\* json.dumps of a payload: a tuple is written as a JSON array; a payload that
\* is a str ("text"), not a dict, is written as a JSON string.
JsonDumps(p) ==
    IF p \in {"dict_tuple", "dict_list"} THEN "json_list"
    ELSE IF p = "text" THEN "json_text" ELSE "json_str"

\* json.loads of a payload: a JSON array is read as a list.
JsonLoads(j) ==
    IF j = "json_list" THEN "dict_list"
    ELSE IF j = "json_text" THEN "text" ELSE "dict_str"

\* datetime.isoformat and datetime.fromisoformat.
IsoFormat(ts) == <<"iso", ts>>
FromIsoFormat(s) == s[2]

\* Message.to_json: asdict, the timestamp as ISO text, json.dumps.
ToJson(m) ==
    <<m.id, JsonDumps(m.payload), IsoFormat(m.timestamp), m.retries, m.max_retries>>

\* A variant of from_json that leaves the payload as the JSON text it was sent as.
FromJson_RawPayload(j) ==
    [id |-> j[1], payload |-> j[2], timestamp |-> FromIsoFormat(j[3]),
     retries |-> j[4], max_retries |-> j[5]]

\* Message.from_json: json.loads, the timestamp parsed, cls(**data).
FromJson(j) ==
    [id |-> j[1], payload |-> JsonLoads(j[2]), timestamp |-> FromIsoFormat(j[3]),
     retries |-> j[4], max_retries |-> j[5]]

-----------------------------------------------------------------------------
(* dict / Redis hash and list primitives *)

\* A variant of the assignment that keeps the value a key already has
\* (dict.setdefault, HSETNX).
HSet_KeepsFirst(h, k, v) ==
    [x \in DOMAIN h \cup {k} |-> IF x \in DOMAIN h THEN h[x] ELSE v]

\* d[k] = v on a dict; HSET key field value on a Redis hash.
HSet(h, k, v) == [x \in DOMAIN h \cup {k} |-> IF x = k THEN v ELSE h[x]]

\* del d[k] on a dict; HDEL key field on a Redis hash.
HDel(h, k) == [x \in DOMAIN h \ {k} |-> h[x]]

\* HDEL's reply: the number of fields removed.
HDelCount(h, k) == IF k \in DOMAIN h THEN 1 ELSE 0

\* HGET key field: <<>> for nil.
HGet(h, k) == IF k \in DOMAIN h THEN <<h[k]>> ELSE <<>>

\* list.append / RPUSH.
RPush(l, v) == Append(l, v)

\* LPOP's reply: <<>> for nil.
LPopReply(l) == IF l = <<>> THEN <<>> ELSE <<Head(l)>>

\* The list after list.pop(0) / LPOP.
LPopRest(l) == IF l = <<>> THEN <<>> ELSE Tail(l)

EmptyHash == [x \in {} |-> <<>>]

-----------------------------------------------------------------------------
(* The queue state as one value: [queue, processing, dead_letter] *)

Store == [queue |-> queue, processing |-> processing, dead_letter |-> dead_letter]

SetStore(s) ==
    /\ queue' = s.queue
    /\ processing' = s.processing
    /\ dead_letter' = s.dead_letter

-----------------------------------------------------------------------------
(* MessageQueue (in memory): no operation awaits anything, so each runs    *)
(* to its end without another task of the event loop in between.           *)

\* MessageQueue.enqueue
MemEnqueue(s, m) == [s EXCEPT !.queue = RPush(@, m)]

\* A variant of dequeue that returns the newest message: self.queue[-1].
MemDequeueRet_Last(s) == IF s.queue = <<>> THEN <<>> ELSE <<s.queue[Len(s.queue)]>>

\* MessageQueue.dequeue: the value returned
MemDequeueRet(s) == LPopReply(s.queue)

\* MessageQueue.dequeue: the state it leaves
MemDequeue(s) ==
    IF s.queue = <<>>
    THEN s
    ELSE LET message == Head(s.queue)
         IN  [s EXCEPT !.queue = LPopRest(@),
                       !.processing = HSet(@, message.id, message)]

\* A variant of ack that removes the oldest checked-out entry when the id is unknown.
MemAck_PopsOther(s, message_id) ==
    IF message_id \in DOMAIN s.processing
    THEN [s EXCEPT !.processing = HDel(@, message_id)]
    ELSE IF DOMAIN s.processing = {}
         THEN s
         ELSE [s EXCEPT !.processing = HDel(@, CHOOSE k \in DOMAIN s.processing : TRUE)]

\* MessageQueue.ack
MemAck(s, message_id) ==
    IF message_id \in DOMAIN s.processing
    THEN [s EXCEPT !.processing = HDel(@, message_id)]
    ELSE s

\* A variant of nack without the final del self.processing[message_id].
MemNack_KeepsProcessing(s, message_id) ==
    IF message_id \in DOMAIN s.processing
    THEN LET message == [s.processing[message_id] EXCEPT !.retries = @ + 1]
         IN  IF message.retries >= message.max_retries
             THEN [s EXCEPT !.dead_letter = RPush(@, message),
                            !.processing = HSet(@, message_id, message)]
             ELSE [s EXCEPT !.queue = RPush(@, message),
                            !.processing = HSet(@, message_id, message)]
    ELSE s

\* A variant of nack that puts a dead letter at the head: dead_letter.insert(0, message).
MemNack_DeadLetterAtHead(s, message_id) ==
    IF message_id \in DOMAIN s.processing
    THEN LET message == [s.processing[message_id] EXCEPT !.retries = @ + 1]
             s1 == IF message.retries >= message.max_retries
                   THEN [s EXCEPT !.dead_letter = <<message>> \o @]
                   ELSE [s EXCEPT !.queue = RPush(@, message)]
         IN  [s1 EXCEPT !.processing = HDel(@, message_id)]
    ELSE s

\* MessageQueue.nack
MemNack(s, message_id) ==
    IF message_id \in DOMAIN s.processing
    THEN LET message == [s.processing[message_id] EXCEPT !.retries = @ + 1]
             s1 == IF message.retries >= message.max_retries
                   THEN [s EXCEPT !.dead_letter = RPush(@, message)]
                   ELSE [s EXCEPT !.queue = RPush(@, message)]
         IN  [s1 EXCEPT !.processing = HDel(@, message_id)]
    ELSE s

-----------------------------------------------------------------------------
(* RedisMessageQueue, one client at a time: each operation is the sequence *)
(* of store commands the code issues, run to its end.                      *)

\* RedisMessageQueue.enqueue
RedisEnqueue(s, m) == [s EXCEPT !.queue = RPush(@, ToJson(m))]

\* RedisMessageQueue.dequeue: the value returned
RedisDequeueRet(s) ==
    LET message_json == LPopReply(s.queue)
    IN  IF message_json = <<>> THEN <<>> ELSE <<FromJson(message_json[1])>>

\* A variant of dequeue that pops the message without recording it in the
\* processing hash (no HSET).
RedisDequeue_NoCheckout(s) == [s EXCEPT !.queue = LPopRest(@)]

\* RedisMessageQueue.dequeue: the state it leaves
RedisDequeue(s) ==
    LET message_json == LPopReply(s.queue)
    IN  IF message_json = <<>>
        THEN s
        ELSE LET message == FromJson(message_json[1])
             IN  [s EXCEPT !.queue = LPopRest(@),
                           !.processing = HSet(@, message.id, message_json[1])]

\* RedisMessageQueue.ack
RedisAck(s, message_id) ==
    IF HDelCount(s.processing, message_id) > 0
    THEN [s EXCEPT !.processing = HDel(@, message_id)]
    ELSE s

\* A variant of nack with retries > max_retries for retries >= max_retries.
RedisNack_OffByOne(s, message_id) ==
    LET message_json == HGet(s.processing, message_id)
    IN  IF message_json # <<>>
        THEN LET message == [FromJson(message_json[1]) EXCEPT !.retries = @ + 1]
                 s1 == IF message.retries > message.max_retries
                       THEN [s EXCEPT !.dead_letter = RPush(@, ToJson(message))]
                       ELSE [s EXCEPT !.queue = RPush(@, ToJson(message))]
             IN  [s1 EXCEPT !.processing = HDel(@, message_id)]
        ELSE s

\* A variant of nack without message.retries += 1.
RedisNack_NoIncrement(s, message_id) ==
    LET message_json == HGet(s.processing, message_id)
    IN  IF message_json # <<>>
        THEN LET message == FromJson(message_json[1])
                 s1 == IF message.retries >= message.max_retries
                       THEN [s EXCEPT !.dead_letter = RPush(@, ToJson(message))]
                       ELSE [s EXCEPT !.queue = RPush(@, ToJson(message))]
             IN  [s1 EXCEPT !.processing = HDel(@, message_id)]
        ELSE s

\* A variant of nack that pushes the JSON it read, not the message it incremented.
RedisNack_StaleJson(s, message_id) ==
    LET message_json == HGet(s.processing, message_id)
    IN  IF message_json # <<>>
        THEN LET message == [FromJson(message_json[1]) EXCEPT !.retries = @ + 1]
                 s1 == IF message.retries >= message.max_retries
                       THEN [s EXCEPT !.dead_letter = RPush(@, message_json[1])]
                       ELSE [s EXCEPT !.queue = RPush(@, message_json[1])]
             IN  [s1 EXCEPT !.processing = HDel(@, message_id)]
        ELSE s

\* RedisMessageQueue.nack
RedisNack(s, message_id) ==
    LET message_json == HGet(s.processing, message_id)
    IN  IF message_json # <<>>
        THEN LET message == [FromJson(message_json[1]) EXCEPT !.retries = @ + 1]
                 s1 == IF message.retries >= message.max_retries
                       THEN [s EXCEPT !.dead_letter = RPush(@, ToJson(message))]
                       ELSE [s EXCEPT !.queue = RPush(@, ToJson(message))]
             IN  [s1 EXCEPT !.processing = HDel(@, message_id)]
        ELSE s

-----------------------------------------------------------------------------
(* The operations of whichever class was constructed *)

QEnqueue(s, m) == IF backend = "redis" THEN RedisEnqueue(s, m) ELSE MemEnqueue(s, m)
QDequeue(s) == IF backend = "redis" THEN RedisDequeue(s) ELSE MemDequeue(s)
QDequeueRet(s) == IF backend = "redis" THEN RedisDequeueRet(s) ELSE MemDequeueRet(s)
QAck(s, i) == IF backend = "redis" THEN RedisAck(s, i) ELSE MemAck(s, i)
QNack(s, i) == IF backend = "redis" THEN RedisNack(s, i) ELSE MemNack(s, i)

\* What a reader of the state sees: the stored value as a Message.
AsMessage(v) == IF backend = "redis" THEN FromJson(v) ELSE v

Pending == [k \in DOMAIN queue |-> AsMessage(queue[k])]
Processing == [i \in DOMAIN processing |-> AsMessage(processing[i])]
DeadLetter == [k \in DOMAIN dead_letter |-> AsMessage(dead_letter[k])]

Range(f) == {f[x] : x \in DOMAIN f}

PendingIds == {m.id : m \in Range(Pending)}
ProcessingIds == DOMAIN processing
DeadLetterIds == {m.id : m \in Range(DeadLetter)}

\* The messages (by timestamp) in each collection.
PendingTs == {m.timestamp : m \in Range(Pending)}
ProcessingTs == {m.timestamp : m \in Range(Processing)}
DeadLetterTs == {m.timestamp : m \in Range(DeadLetter)}

-----------------------------------------------------------------------------
(* A client calling the queue's operations one after another *)

\* What "await handler(message)" can do: return, or raise an Exception.
Outcomes == {"returns", "raises"}

\* A handler about which nothing is known: either outcome on every call.
AnyHandler == [t \in 1..MaxMsgs |-> Outcomes]

\* A handler that always succeeds.
GoodHandler == [t \in 1..MaxMsgs |-> {"returns"}]

NoTasks == <<>>

\* No MessageBuffer is in use.
NoBuffer ==
    /\ buffer = <<>>
    /\ batch_sizes = <<>>
    /\ putters = <<>>
    /\ issued = 0
    /\ batch = <<>>
    /\ got = <<>>

\* No processor is in use.
NoProcessor ==
    /\ processor = ""
    /\ concurrent_limit = 0
    /\ messages = 0
    /\ pb = <<>>
    /\ inv = <<>>
    /\ calls = <<>>
    /\ processing_window = 0
    /\ batch_size = 0
    /\ cycles = 0
    /\ metrics = <<>>

Init ==
    /\ backend \in Backends
    /\ queue = <<>>
    /\ processing = EmptyHash
    /\ dead_letter = <<>>
    /\ clock = 0
    /\ arg = <<>>
    /\ reused = FALSE
    /\ lastOp = [op |-> "init", id |-> ""]
    /\ ret = <<>>
    /\ acked = {}
    /\ delivered = [t \in 1..MaxMsgs |-> 0]
    /\ nacked = [t \in 1..MaxMsgs |-> 0]
    /\ lastFresh = 0
    /\ waitFor = {}
    /\ tasks = NoTasks
    /\ handler = AnyHandler
    /\ NoBuffer
    /\ NoProcessor
    /\ bp = <<>>
    /\ loop = <<>>
    /\ remote = <<>>

\* History kept when dequeue returns reply (<<>> or <<m>>).
NoteDequeue(reply) ==
    IF reply = <<>>
    THEN UNCHANGED <<delivered, lastFresh, waitFor>>
    ELSE LET m == reply[1]
         IN  /\ delivered' = [delivered EXCEPT ![m.timestamp] = @ + 1]
             /\ lastFresh' = IF m.retries = 0 THEN m.timestamp ELSE lastFresh
             /\ waitFor' = {p \in waitFor : p[1] # m.timestamp /\ p[2] # m.timestamp}

\* History kept when nack(message_id) is called in state s.
NoteNack(s, message_id) ==
    IF message_id \in DOMAIN s.processing
    THEN LET m == AsMessage(s.processing[message_id])
         IN  /\ nacked' = [nacked EXCEPT ![m.timestamp] = @ + 1]
             /\ waitFor' = IF m.retries + 1 >= m.max_retries
                           THEN waitFor
                           ELSE waitFor \cup
                                {<<AsMessage(s.queue[k]).timestamp, m.timestamp>> :
                                    k \in DOMAIN s.queue}
    ELSE UNCHANGED <<nacked, waitFor>>

\* History kept when ack(message_id) is called in state s.
NoteAck(s, message_id) ==
    acked' = IF message_id \in DOMAIN s.processing
             THEN acked \cup {AsMessage(s.processing[message_id]).timestamp}
             ELSE acked

\* The producer: constructs Message(id, payload, datetime.now()) and enqueues it.
\* Every enqueue is given a newly constructed Message (retries 0), as in all the
\* producers of the repository; the id is the caller's choice and may repeat.
Enqueue(id, payload, maxr) ==
    /\ clock < MaxMsgs
    /\ LET m == Message(id, payload, clock + 1, maxr)
       IN  /\ SetStore(QEnqueue(Store, m))
           /\ lastOp' = [op |-> "enqueue", id |-> m.id]
           /\ arg' = <<m>>
           /\ reused' = (reused \/ m.id \in PendingIds \cup ProcessingIds \cup DeadLetterIds)
    /\ clock' = clock + 1
    /\ ret' = <<>>
    /\ UNCHANGED <<rest, backend, acked, delivered, nacked, lastFresh, waitFor, tasks>>

Dequeue ==
    /\ SetStore(QDequeue(Store))
    /\ ret' = QDequeueRet(Store)
    /\ lastOp' = [op |-> "dequeue", id |-> IF ret' = <<>> THEN "" ELSE ret'[1].id]
    /\ arg' = <<>>
    /\ NoteDequeue(ret')
    /\ UNCHANGED <<rest, backend, clock, reused, acked, nacked, tasks>>

Ack(message_id) ==
    /\ SetStore(QAck(Store, message_id))
    /\ lastOp' = [op |-> "ack", id |-> message_id]
    /\ arg' = <<>>
    /\ ret' = <<>>
    /\ NoteAck(Store, message_id)
    /\ UNCHANGED <<rest, backend, clock, reused, delivered, nacked, lastFresh, waitFor, tasks>>

Nack(message_id) ==
    /\ SetStore(QNack(Store, message_id))
    /\ lastOp' = [op |-> "nack", id |-> message_id]
    /\ arg' = <<>>
    /\ ret' = <<>>
    /\ NoteNack(Store, message_id)
    /\ UNCHANGED <<rest, backend, clock, reused, acked, delivered, lastFresh, tasks>>

Next ==
    \/ \E id \in Ids, payload \in Payloads, maxr \in RetryChoices :
          Enqueue(id, payload, maxr)
    \/ Dequeue
    \/ \E message_id \in Ids : Ack(message_id)
    \/ \E message_id \in Ids : Nack(message_id)

Spec == Init /\ [][Next]_vars

\* The same client giving ids that are empty: Message.id is a str, and the
\* dataclass takes any.
InputIds == {"", "0"}

NextInput ==
    \/ \E id \in InputIds, payload \in Payloads, maxr \in RetryChoices :
          Enqueue(id, payload, maxr)
    \/ Dequeue
    \/ \E message_id \in InputIds : Ack(message_id)
    \/ \E message_id \in InputIds : Nack(message_id)

SpecInput == Init /\ [][NextInput]_vars

-----------------------------------------------------------------------------
(* process_messages: consumer tasks on one queue, a producer, cancellation. *)
(*                                                                          *)
(* A task's pc names the step it takes next.  With the Redis backend every  *)
(* store command is awaited: commands of different tasks interleave, and a  *)
(* task can be cancelled before any of them.  With the in-memory backend    *)
(* the queue's operations await nothing: a task that is not suspended (in   *)
(* asyncio.sleep, in the handler, or not yet started) runs on alone, and    *)
(* can be cancelled only where it is suspended.                             *)

Consumers == {"c1", "c2"}

\* str(i)
StrTable == <<"0", "1", "2", "3", "4", "5", "6", "7">>
Str(i) == StrTable[i + 1]

NewTask ==
    [pc |-> "start", message_json |-> <<>>, message |-> <<>>,
     nack_message |-> <<>>, log |-> <<>>, exit |-> ""]

\* The queue as constructed, no message produced, every task created and not
\* yet run.
LoopStart ==
    /\ backend \in Backends
    /\ queue = <<>>
    /\ processing = EmptyHash
    /\ dead_letter = <<>>
    /\ clock = 0
    /\ arg = <<>>
    /\ reused = FALSE
    /\ lastOp = [op |-> "init", id |-> ""]
    /\ ret = <<>>
    /\ acked = {}
    /\ delivered = [t \in 1..MaxMsgs |-> 0]
    /\ nacked = [t \in 1..MaxMsgs |-> 0]
    /\ lastFresh = 0
    /\ waitFor = {}
    /\ tasks = [c \in Consumers |-> NewTask]
    /\ NoBuffer
    /\ NoProcessor
    /\ bp = <<>>
    /\ loop = <<>>
    /\ remote = <<>>

InitLoop ==
    /\ LoopStart
    /\ handler = AnyHandler

\* Where a task of the in-memory queue is suspended (or over).
SuspendedPcs == {"start", "sleep", "handler", "ended"}

\* The task holds the event loop: it is between two suspension points.
Running(c) == backend = "memory" /\ tasks[c].pc \notin SuspendedPcs

\* Task c may take a step: no other task holds the event loop.
Turn(c) == \A d \in Consumers \ {c} : ~Running(d)

SetTask(c, r) == tasks' = [tasks EXCEPT ![c] = r]

history == <<reused, lastOp, arg, ret, delivered, nacked, lastFresh, waitFor>>

\* The history the loop does not keep: all of it but delivered.
callHistory == <<reused, lastOp, arg, ret, nacked, lastFresh, waitFor>>

\* History kept when the loop's dequeue returns reply to the task.
NoteDelivery(reply) ==
    delivered' = IF reply = <<>> THEN delivered
                 ELSE [delivered EXCEPT ![reply[1].timestamp] = @ + 1]

\* The producer of main(): Message(id=str(i), payload={"data": ...},
\* timestamp=datetime.now()), then enqueue.
Produce ==
    /\ clock < MaxMsgs
    /\ \A d \in Consumers : ~Running(d)
    /\ LET m == Message(Str(clock), "dict_str", clock + 1, DefaultMaxRetries)
       IN  SetStore(QEnqueue(Store, m))
    /\ clock' = clock + 1
    /\ UNCHANGED <<rest, backend, acked, history, tasks>>

\* The task is run for the first time: it enters the while loop.
TaskStart(c) ==
    /\ tasks[c].pc = "start"
    /\ Turn(c)
    /\ SetTask(c, [tasks[c] EXCEPT !.pc = "dequeue"])
    /\ UNCHANGED <<rest, backend, queue, processing, dead_letter, clock, acked, history>>

\* message = await self.dequeue() on the in-memory queue.
LoopDequeue(c) ==
    /\ backend = "memory"
    /\ tasks[c].pc = "dequeue"
    /\ Turn(c)
    /\ LET message == MemDequeueRet(Store)
       IN  /\ SetStore(MemDequeue(Store))
           /\ SetTask(c, [tasks[c] EXCEPT
                  !.pc = IF message = <<>> THEN "sleep" ELSE "handler",
                  !.message = message,
                  !.log = IF message = <<>> THEN <<>> ELSE <<"dequeue">>])
           /\ NoteDelivery(message)
    /\ UNCHANGED <<rest, backend, clock, acked, callHistory>>

\* dequeue on Redis, first command: message_json = await self.redis.lpop(...).
RedisLPop(c) ==
    /\ backend = "redis"
    /\ tasks[c].pc = "dequeue"
    /\ LET message_json == LPopReply(queue)
       IN  /\ queue' = LPopRest(queue)
           /\ SetTask(c, [tasks[c] EXCEPT
                  !.pc = IF message_json = <<>> THEN "sleep" ELSE "hset",
                  !.message_json = message_json,
                  !.message = IF message_json = <<>> THEN <<>>
                              ELSE <<FromJson(message_json[1])>>,
                  !.log = <<>>])
    /\ UNCHANGED <<rest, backend, processing, dead_letter, clock, acked, history>>

\* dequeue on Redis, second command: await self.redis.hset(...); return message.
RedisHSet(c) ==
    /\ backend = "redis"
    /\ tasks[c].pc = "hset"
    /\ processing' = HSet(processing, tasks[c].message[1].id, tasks[c].message_json[1])
    /\ SetTask(c, [tasks[c] EXCEPT !.pc = "handler", !.log = <<"dequeue">>])
    /\ NoteDelivery(tasks[c].message)
    /\ UNCHANGED <<rest, backend, queue, dead_letter, clock, acked, callHistory>>

\* A variant of the loop that returns when dequeue finds nothing, in place of
\* sleeping and polling again.
Wake_Ends(c) ==
    /\ tasks[c].pc = "sleep"
    /\ Turn(c)
    /\ SetTask(c, [tasks[c] EXCEPT !.pc = "ended", !.exit = "returned"])
    /\ UNCHANGED <<rest, backend, queue, processing, dead_letter, clock, acked, history>>

\* if not message: await asyncio.sleep(1); continue
Wake(c) ==
    /\ tasks[c].pc = "sleep"
    /\ Turn(c)
    /\ SetTask(c, [tasks[c] EXCEPT !.pc = "dequeue"])
    /\ UNCHANGED <<rest, backend, queue, processing, dead_letter, clock, acked, history>>

\* await handler(message) returns: the try block goes on to ack.
HandlerReturns(c) ==
    /\ tasks[c].pc = "handler"
    /\ Turn(c)
    /\ "returns" \in handler[tasks[c].message[1].timestamp]
    /\ SetTask(c, [tasks[c] EXCEPT !.pc = "ack", !.log = Append(@, "returned")])
    /\ UNCHANGED <<rest, backend, queue, processing, dead_letter, clock, acked, history>>

\* A variant of the loop without the except block: the handler's exception
\* ends process_messages.
HandlerRaises_Propagates(c) ==
    /\ tasks[c].pc = "handler"
    /\ Turn(c)
    /\ "raises" \in handler[tasks[c].message[1].timestamp]
    /\ SetTask(c, [tasks[c] EXCEPT !.pc = "ended", !.exit = "exception",
                                   !.log = Append(@, "raised")])
    /\ UNCHANGED <<rest, backend, queue, processing, dead_letter, clock, acked, history>>

\* await handler(message) raises an Exception: the except block goes on to nack.
HandlerRaises(c) ==
    /\ tasks[c].pc = "handler"
    /\ Turn(c)
    /\ "raises" \in handler[tasks[c].message[1].timestamp]
    /\ SetTask(c, [tasks[c] EXCEPT !.pc = "nack", !.log = Append(@, "raised")])
    /\ UNCHANGED <<rest, backend, queue, processing, dead_letter, clock, acked, history>>

\* await self.ack(message.id) on the in-memory queue.
LoopAck(c) ==
    /\ backend = "memory"
    /\ tasks[c].pc = "ack"
    /\ SetStore(MemAck(Store, tasks[c].message[1].id))
    /\ NoteAck(Store, tasks[c].message[1].id)
    /\ SetTask(c, [tasks[c] EXCEPT !.pc = "dequeue", !.log = Append(@, "ack")])
    /\ UNCHANGED <<rest, backend, clock, history>>

\* ack on Redis: await self.redis.hdel(...).
RedisAckHDel(c) ==
    /\ backend = "redis"
    /\ tasks[c].pc = "ack"
    /\ processing' = HDel(processing, tasks[c].message[1].id)
    /\ NoteAck(Store, tasks[c].message[1].id)
    /\ SetTask(c, [tasks[c] EXCEPT !.pc = "dequeue", !.log = Append(@, "ack")])
    /\ UNCHANGED <<rest, backend, queue, dead_letter, clock, history>>

\* await self.nack(message.id) on the in-memory queue.
LoopNack(c) ==
    /\ backend = "memory"
    /\ tasks[c].pc = "nack"
    /\ SetStore(MemNack(Store, tasks[c].message[1].id))
    /\ SetTask(c, [tasks[c] EXCEPT !.pc = "dequeue", !.log = Append(@, "nack")])
    /\ UNCHANGED <<rest, backend, clock, acked, history>>

\* nack on Redis, first command: message_json = await self.redis.hget(...).
RedisNackHGet(c) ==
    /\ backend = "redis"
    /\ tasks[c].pc = "nack"
    /\ LET message_json == HGet(processing, tasks[c].message[1].id)
       IN  SetTask(c, [tasks[c] EXCEPT
               !.pc = IF message_json = <<>> THEN "dequeue" ELSE "nack_rpush",
               !.nack_message =
                   IF message_json = <<>> THEN <<>>
                   ELSE <<[FromJson(message_json[1]) EXCEPT !.retries = @ + 1]>>,
               !.log = IF message_json = <<>> THEN Append(@, "nack") ELSE @])
    /\ UNCHANGED <<rest, backend, queue, processing, dead_letter, clock, acked, history>>

\* nack on Redis, second command: rpush to the dead letter list or to the queue.
RedisNackRPush(c) ==
    /\ backend = "redis"
    /\ tasks[c].pc = "nack_rpush"
    /\ LET message == tasks[c].nack_message[1]
       IN  IF message.retries >= message.max_retries
           THEN /\ dead_letter' = RPush(dead_letter, ToJson(message))
                /\ UNCHANGED queue
           ELSE /\ queue' = RPush(queue, ToJson(message))
                /\ UNCHANGED dead_letter
    /\ SetTask(c, [tasks[c] EXCEPT !.pc = "nack_hdel"])
    /\ UNCHANGED <<rest, backend, processing, clock, acked, history>>

\* nack on Redis, third command: await self.redis.hdel(...).
RedisNackHDel(c) ==
    /\ backend = "redis"
    /\ tasks[c].pc = "nack_hdel"
    /\ processing' = HDel(processing, tasks[c].message[1].id)
    /\ SetTask(c, [tasks[c] EXCEPT !.pc = "dequeue", !.log = Append(@, "nack")])
    /\ UNCHANGED <<rest, backend, queue, dead_letter, clock, acked, history>>

\* The task is cancelled (task.cancel(), or wait_for's timeout): CancelledError
\* is raised at the await the task is suspended in; it is no Exception, so the
\* except block does not catch it and process_messages ends.
Cancel(c) ==
    /\ tasks[c].pc # "ended"
    /\ ~Running(c)
    /\ Turn(c)
    /\ SetTask(c, [tasks[c] EXCEPT !.pc = "ended", !.exit = "cancelled"])
    /\ UNCHANGED <<rest, backend, queue, processing, dead_letter, clock, acked, history>>

NextLoop ==
    \/ Produce
    \/ \E c \in Consumers :
          \/ TaskStart(c)
          \/ LoopDequeue(c)
          \/ RedisLPop(c)
          \/ RedisHSet(c)
          \/ Wake(c)
          \/ HandlerReturns(c)
          \/ HandlerRaises(c)
          \/ LoopAck(c)
          \/ RedisAckHDel(c)
          \/ LoopNack(c)
          \/ RedisNackHGet(c)
          \/ RedisNackRPush(c)
          \/ RedisNackHDel(c)
          \/ Cancel(c)

SpecLoop == InitLoop /\ [][NextLoop]_vars

-----------------------------------------------------------------------------
(* process_messages when the store fails: a command of the Redis client      *)
(* raises (redis.exceptions.ConnectionError, an Exception) in place of being *)
(* executed.                                                                 *)

\* The pcs at which the task's next step is a store command.
CommandPcs == {"dequeue", "hset", "ack", "nack", "nack_rpush", "nack_hdel"}

\* The command task c is about to issue raises.  In dequeue, called outside
\* the try block, and in nack, called in the except block, the exception
\* leaves process_messages.  In ack, called in the try block after the
\* handler, except Exception catches it and the loop goes on to nack.
StoreFails(c) ==
    /\ backend = "redis"
    /\ tasks[c].pc \in CommandPcs
    /\ SetTask(c, IF tasks[c].pc = "ack"
                  THEN [tasks[c] EXCEPT !.pc = "nack",
                                        !.log = Append(@, "store_failed")]
                  ELSE [tasks[c] EXCEPT !.pc = "ended", !.exit = "store_failure",
                                        !.log = Append(@, "store_failed")])
    /\ UNCHANGED <<rest, backend, queue, processing, dead_letter, clock, acked, history>>

NextFail ==
    \/ NextLoop
    \/ \E c \in Consumers : StoreFails(c)

SpecFail == InitLoop /\ [][NextFail]_vars

-----------------------------------------------------------------------------
(* process_messages under fair scheduling: one consumer task that nothing    *)
(* cancels, as in "await queue.process_messages(handler)", and a producer.   *)
(* The handler is one that may raise on any call, or one that always         *)
(* succeeds.                                                                 *)

LiveConsumers == {"c1"}

InitLive ==
    /\ LoopStart
    /\ handler \in {AnyHandler, GoodHandler}

\* One step of task c running process_messages.
Step(c) ==
    \/ TaskStart(c)
    \/ LoopDequeue(c)
    \/ RedisLPop(c)
    \/ RedisHSet(c)
    \/ Wake(c)
    \/ HandlerReturns(c)
    \/ HandlerRaises(c)
    \/ LoopAck(c)
    \/ RedisAckHDel(c)
    \/ LoopNack(c)
    \/ RedisNackHGet(c)
    \/ RedisNackRPush(c)
    \/ RedisNackHDel(c)

NextLive ==
    \/ Produce
    \/ \E c \in LiveConsumers : Step(c)

\* The event loop runs every task that is ready: the task is run when created,
\* asyncio.sleep(1) ends, every store command is answered, and the handler
\* returns or raises.  Nothing obliges the producer to enqueue.
Fairness == \A c \in LiveConsumers : WF_vars(Step(c))

SpecLive == InitLive /\ [][NextLive]_vars /\ Fairness

-----------------------------------------------------------------------------
(* BatchProcessor.process_batch (src/test_advanced_queue.py): the messages   *)
(* of the batch are in the RedisMessageQueue, a task runs process_messages   *)
(* with the handler wrapped in process_with_tracking, and the caller waits   *)
(* for processing_complete or for the timeout, then cancels the task.  The   *)
(* handler fails or succeeds per message, the same way at every delivery.    *)

\* Handlers whose outcome depends on the message only.
FixedHandlers == [1..MaxMsgs -> {{"returns"}, {"raises"}}]

\* The "retry_count < 3" of the completion check.
CheckRetries == 3

\* test_batch_processing: batch_size messages with ids str(i) enqueued, then
\* BatchProcessor(queue).process_batch(handler, batch_size) up to its await.
InitTrack ==
    /\ backend = "redis"
    /\ queue = [t \in 1..MaxMsgs |->
                   ToJson(Message(Str(t - 1), "dict_str", t, DefaultMaxRetries))]
    /\ processing = EmptyHash
    /\ dead_letter = <<>>
    /\ clock = MaxMsgs
    /\ arg = <<>>
    /\ reused = FALSE
    /\ lastOp = [op |-> "init", id |-> ""]
    /\ ret = <<>>
    /\ acked = {}
    /\ delivered = [t \in 1..MaxMsgs |-> 0]
    /\ nacked = [t \in 1..MaxMsgs |-> 0]
    /\ lastFresh = 0
    /\ waitFor = {}
    /\ tasks = [c \in Consumers |-> NewTask]
    /\ handler \in FixedHandlers
    /\ NoBuffer
    /\ NoProcessor
    /\ bp = [pc |-> "waiting", batch_size |-> MaxMsgs, processed |-> <<>>,
             failed |-> <<>>, retried |-> <<>>, processing_complete |-> FALSE,
             timed_out |-> FALSE]
    /\ loop = <<>>
    /\ remote = <<>>

\* "if message.id not in self.retried: self.retried[message.id] = 0"
Tracked(retried, id) ==
    IF id \in DOMAIN retried THEN retried
    ELSE [k \in DOMAIN retried \cup {id} |-> IF k = id THEN 0 ELSE retried[k]]

\* The completion check of process_with_tracking.
AllComplete(b) ==
    /\ Len(b.processed) + Len(b.failed) >= b.batch_size
    /\ \A msg_id \in DOMAIN b.retried :
          ~(b.retried[msg_id] < CheckRetries
              /\ msg_id \notin {b.processed[k].id : k \in 1..Len(b.processed)})

\* process_with_tracking(message) when the handler returns: the message is
\* appended to processed, the completion check may set processing_complete,
\* and the loop goes on to ack.
TrackedReturns(c) ==
    /\ tasks[c].pc = "handler"
    /\ "returns" \in handler[tasks[c].message[1].timestamp]
    /\ LET message == tasks[c].message[1]
           b == [bp EXCEPT !.retried = Tracked(@, message.id),
                           !.processed = Append(@, message)]
       IN  bp' = [b EXCEPT !.processing_complete = @ \/ AllComplete(b)]
    /\ SetTask(c, [tasks[c] EXCEPT !.pc = "ack", !.log = Append(@, "returned")])
    /\ UNCHANGED <<handler, ioVars, pbVars, apVars, loop, remote, backend, queue, processing,
                   dead_letter, clock, acked, history>>

\* process_with_tracking(message) when the handler raises: the retry count of
\* the id goes up, the message is appended to failed once the count reaches its
\* max_retries, and the exception is raised again: the loop goes on to nack.
TrackedRaises(c) ==
    /\ tasks[c].pc = "handler"
    /\ "raises" \in handler[tasks[c].message[1].timestamp]
    /\ LET message == tasks[c].message[1]
           retried == [Tracked(bp.retried, message.id) EXCEPT ![message.id] = @ + 1]
       IN  bp' = [bp EXCEPT !.retried = retried,
                            !.failed = IF retried[message.id] >= message.max_retries
                                       THEN Append(@, message) ELSE @]
    /\ SetTask(c, [tasks[c] EXCEPT !.pc = "nack", !.log = Append(@, "raised")])
    /\ UNCHANGED <<handler, ioVars, pbVars, apVars, loop, remote, backend, queue, processing,
                   dead_letter, clock, acked, history>>

\* The caller is resumed, by processing_complete or by the timeout of
\* wait_for; it cancels the task where the task is suspended and returns.
CancelAndReturn(c, timed_out) ==
    /\ bp.pc = "waiting"
    /\ bp' = [bp EXCEPT !.pc = "returned", !.timed_out = timed_out]
    /\ SetTask(c, IF tasks[c].pc = "ended" THEN tasks[c]
                  ELSE [tasks[c] EXCEPT !.pc = "ended", !.exit = "cancelled"])
    /\ UNCHANGED <<handler, ioVars, pbVars, apVars, loop, remote, backend, queue, processing,
                   dead_letter, clock, acked, history>>

\* processing_complete.wait() returns.
Completed(c) ==
    /\ bp.processing_complete
    /\ CancelAndReturn(c, FALSE)

\* asyncio.TimeoutError: "Batch processing timed out".
TimedOut(c) ==
    /\ ~bp.processing_complete
    /\ CancelAndReturn(c, TRUE)

NextTrack ==
    \E c \in LiveConsumers :
        \/ TaskStart(c)
        \/ RedisLPop(c)
        \/ RedisHSet(c)
        \/ Wake(c)
        \/ TrackedReturns(c)
        \/ TrackedRaises(c)
        \/ RedisAckHDel(c)
        \/ RedisNackHGet(c)
        \/ RedisNackRPush(c)
        \/ RedisNackHDel(c)
        \/ Completed(c)
        \/ TimedOut(c)

SpecTrack == InitTrack /\ [][NextTrack]_vars

-----------------------------------------------------------------------------
(* MessageBuffer (src/advanced_io_processor.py): an asyncio.Queue(maxsize)   *)
(* with put and get_batch, called by tasks that put and a task that gets.    *)

\* max_size given to MessageBuffer (1000 by default; asyncio.Queue treats a
\* maxsize of 0 or less as no limit, so the capacity is at least 1).
MaxSize == 3

\* Number of put calls made in a run.
MaxPuts == 5

\* maxlen of the deques batch_sizes and processing_times (100 in the code).
HistoryMaxLen == 2

Putters == {"p1", "p2"}

\* The sizes get_batch is called with.
BatchSizes == 1..MaxSize

\* The queue variables when no queue is in use.
NoQueue ==
    /\ backend = "memory"
    /\ queue = <<>>
    /\ processing = EmptyHash
    /\ dead_letter = <<>>
    /\ clock = 0
    /\ arg = <<>>
    /\ reused = FALSE
    /\ lastOp = [op |-> "init", id |-> ""]
    /\ ret = <<>>
    /\ acked = {}
    /\ delivered = [t \in 1..MaxMsgs |-> 0]
    /\ nacked = [t \in 1..MaxMsgs |-> 0]
    /\ lastFresh = 0
    /\ waitFor = {}
    /\ tasks = NoTasks
    /\ handler = AnyHandler
    /\ bp = <<>>
    /\ loop = <<>>
    /\ remote = <<>>

queueVars == <<backend, queue, processing, dead_letter, clock, reused, lastOp, arg,
               ret, acked, delivered, nacked, lastFresh, waitFor, tasks, handler, bp,
               loop, remote>>

\* MessageBuffer.__init__, and the tasks that will call put.
InitBuffer ==
    /\ NoQueue
    /\ NoProcessor
    /\ buffer = <<>>
    /\ batch_sizes = <<>>
    /\ putters = [p \in Putters |-> [pc |-> "idle", message |-> 0]]
    /\ issued = 0
    /\ batch = <<>>
    /\ got = <<>>

\* asyncio.Queue.full(), asyncio.Queue.empty()
Full(q) == Len(q) >= MaxSize
Empty(q) == Len(q) = 0

\* deque(maxlen=HistoryMaxLen).append(x)
DequeAppend(dq, x) ==
    IF Len(dq) < HistoryMaxLen THEN Append(dq, x) ELSE Append(Tail(dq), x)

Min(a, b) == IF a <= b THEN a ELSE b

SetPutter(p, r) == putters' = [putters EXCEPT ![p] = r]

\* A variant of asyncio.Queue.put that drops the item when the queue is full.
QueuePut_DropsWhenFull(p) ==
    IF Full(buffer)
    THEN /\ SetPutter(p, [pc |-> "idle", message |-> 0])
         /\ UNCHANGED buffer
    ELSE /\ buffer' = Append(buffer, putters[p].message)
         /\ SetPutter(p, [pc |-> "idle", message |-> 0])

\* await self.buffer.put(message), asyncio.Queue.put: while the queue is full
\* the caller waits for a getter to wake it; then put_nowait(item).
QueuePut(p) ==
    IF Full(buffer)
    THEN /\ SetPutter(p, [putters[p] EXCEPT !.pc = "blocked"])
         /\ UNCHANGED buffer
    ELSE /\ buffer' = Append(buffer, putters[p].message)
         /\ SetPutter(p, [pc |-> "idle", message |-> 0])

\* put(message) is called: a full buffer sends the caller to asyncio.sleep(0.1);
\* otherwise it goes on to self.buffer.put, which does not suspend.
Put(p) ==
    /\ putters[p].pc = "idle"
    /\ issued < MaxPuts
    /\ issued' = issued + 1
    /\ IF Full(buffer)
       THEN /\ SetPutter(p, [pc |-> "sleep", message |-> issued + 1])
            /\ UNCHANGED buffer
       ELSE /\ buffer' = Append(buffer, issued + 1)
            /\ SetPutter(p, [pc |-> "idle", message |-> 0])
    /\ UNCHANGED <<queueVars, pbVars, apVars, batch_sizes, batch, got>>

\* asyncio.sleep(0.1) is over: await self.buffer.put(message).
PutAfterSleep(p) ==
    /\ putters[p].pc = "sleep"
    /\ QueuePut(p)
    /\ UNCHANGED <<queueVars, pbVars, apVars, batch_sizes, issued, batch, got>>

\* The putter waiting in asyncio.Queue.put was woken by a get and finds room.
PutWoken(p) ==
    /\ putters[p].pc = "blocked"
    /\ ~Full(buffer)
    /\ QueuePut(p)
    /\ UNCHANGED <<queueVars, pbVars, apVars, batch_sizes, issued, batch, got>>

\* A variant of the loop of get_batch that takes the newest item first.
RECURSIVE BatchLoop_Newest(_, _, _)
BatchLoop_Newest(q, b, k) ==
    IF k <= 0 \/ Empty(q)
    THEN [batch |-> b, buffer |-> q]
    ELSE BatchLoop_Newest(SubSeq(q, 1, Len(q) - 1), Append(b, q[Len(q)]), k - 1)

\* The loop of get_batch with k iterations left, batch b and the queue q:
\*   for _ in range(size):
\*       if not self.buffer.empty(): batch.append(await self.buffer.get())
\*       else: break
\* asyncio.Queue.get on a queue that is not empty returns get_nowait() without
\* suspending.
RECURSIVE BatchLoop(_, _, _)
BatchLoop(q, b, k) ==
    IF k <= 0 \/ Empty(q)
    THEN [batch |-> b, buffer |-> q]
    ELSE BatchLoop(Tail(q), Append(b, Head(q)), k - 1)

\* get_batch(size): takes items while the buffer is not empty, at most size of
\* them, without suspending; appends the batch length to batch_sizes (and the
\* elapsed time, not modelled, to processing_times).
GetBatch(size) ==
    /\ LET r == BatchLoop(buffer, <<>>, size)
       IN  /\ batch' = r.batch
           /\ buffer' = r.buffer
           /\ batch_sizes' = DequeAppend(batch_sizes, Len(r.batch))
           /\ got' = got \o r.batch
    /\ UNCHANGED <<queueVars, pbVars, apVars, putters, issued>>

NextBuffer ==
    \/ \E p \in Putters : Put(p)
    \/ \E p \in Putters : PutAfterSleep(p)
    \/ \E p \in Putters : PutWoken(p)
    \/ \E size \in BatchSizes : GetBatch(size)

\* The event loop resumes a putter whose sleep is over and a putter a get has
\* woken.  Nothing obliges the callers to call put or get_batch.
FairBuffer ==
    \A p \in Putters : WF_vars(PutAfterSleep(p)) /\ WF_vars(PutWoken(p))

SpecBuffer == InitBuffer /\ [][NextBuffer]_vars /\ FairBuffer

-----------------------------------------------------------------------------
(* The adaptation cycle of AdaptiveProcessor: _optimize_processing_params,    *)
(* called once per cycle with the metrics of the cycle.                      *)
(*                                                                           *)
(* processing_window is held in millionths of a second, and a product with   *)
(* 0.9 or 1.1 is rounded down to a millionth; quality, reliability and       *)
(* throughput are held in hundredths.                                        *)

\* Number of adaptation cycles in a run.
MaxCycles == 8

\* self.processing_window = 0.1, and the floor 0.05 and ceiling 0.2 of the rule.
DefaultWindow == 100000
WindowFloor == 50000
WindowCeiling == 200000

\* The metrics of a cycle: values on both sides of every threshold of the
\* rule, and the thresholds themselves.
Throughputs == {10, 20}
Reliabilities == {69, 70, 85, 90}
Qualities == {64, 65, 75, 80}
ErrorCounts == {2, 3}

Metrics ==
    [throughput : Throughputs, reliability : Reliabilities,
     quality : Qualities, error_count : ErrorCounts]

NoMetrics == [throughput |-> 0, reliability |-> 0, quality |-> 0, error_count |-> 0]

Max(a, b) == IF a >= b THEN a ELSE b

\* No process_batch call has been made.
NewCall == [pc |-> "idle", i |-> 0, step |-> 0, processed |-> 0, failed |-> 0]

\* AdaptiveProcessor.__init__
InitAdapt ==
    /\ NoQueue
    /\ NoBuffer
    /\ processor = "AdaptiveProcessor"
    /\ concurrent_limit = 5
    /\ messages = 0
    /\ pb = NewCall
    /\ inv = <<>>
    /\ calls = <<>>
    /\ processing_window = DefaultWindow
    /\ batch_size = 10
    /\ cycles = 0
    /\ metrics = NoMetrics

\* A variant of the throughput rule without its floor.
Window_NoFloor(w, m) ==
    IF m.throughput < 20 THEN (w * 9) \div 10
    ELSE IF m.error_count > 2 THEN Min(WindowCeiling, (w * 11) \div 10)
    ELSE w

\* A variant of the throughput rule that tests error_count first.
Window_ErrorsFirst(w, m) ==
    IF m.error_count > 2 THEN Min(WindowCeiling, (w * 11) \div 10)
    ELSE IF m.throughput < 20 THEN Max(WindowFloor, (w * 9) \div 10)
    ELSE w

\* if metrics.throughput < 0.2: max(0.05, window * 0.9)
\* elif metrics.error_count > 2: min(0.2, window * 1.1)
Window(w, m) ==
    IF m.throughput < 20 THEN Max(WindowFloor, (w * 9) \div 10)
    ELSE IF m.error_count > 2 THEN Min(WindowCeiling, (w * 11) \div 10)
    ELSE w

\* if metrics.reliability > 0.85: min(20, batch_size + 2)
\* elif metrics.reliability < 0.7: max(5, batch_size - 2)
BatchSize(b, m) ==
    IF m.reliability > 85 THEN Min(20, b + 2)
    ELSE IF m.reliability < 70 THEN Max(5, b - 2)
    ELSE b

\* if metrics.quality > 0.75: min(10, concurrent_limit + 1)
\* elif metrics.quality < 0.65: max(3, concurrent_limit - 1)
ConcurrentLimit(c, m) ==
    IF m.quality > 75 THEN Min(10, c + 1)
    ELSE IF m.quality < 65 THEN Max(3, c - 1)
    ELSE c

\* _optimize_processing_params(m)
Optimize(m) ==
    /\ cycles < MaxCycles
    /\ cycles' = cycles + 1
    /\ processing_window' = Window(processing_window, m)
    /\ batch_size' = BatchSize(batch_size, m)
    /\ concurrent_limit' = ConcurrentLimit(concurrent_limit, m)
    /\ UNCHANGED <<queueVars, ioVars, processor, messages, pb, inv, calls, metrics>>

\* Cycles with any metrics, each cycle its own.
NextAdapt == \E m \in Metrics : Optimize(m)

SpecAdapt == InitAdapt /\ [][NextAdapt]_vars

\* Cycles of a run whose metrics are the same at every cycle: the function
\* _optimize_processing_params applied to given metrics, from the defaults and
\* from what it returned.
InitCycle ==
    /\ NoQueue
    /\ NoBuffer
    /\ processor = "AdaptiveProcessor"
    /\ concurrent_limit = 5
    /\ messages = 0
    /\ pb = NewCall
    /\ inv = <<>>
    /\ calls = <<>>
    /\ processing_window = DefaultWindow
    /\ batch_size = 10
    /\ cycles = 0
    /\ metrics \in Metrics

NextCycle == Optimize(metrics)

SpecCycle == InitCycle /\ [][NextCycle]_vars

-----------------------------------------------------------------------------
(* process_batch of AdaptiveProcessor (src/adaptive_smol_processor.py) and   *)
(* of SelfImprovingProcessor (src/advanced_adaptive_processor.py): one task  *)
(* calls process_batch again and again, as main() does; asyncio.gather runs  *)
(* the process_message coroutines of a chunk as tasks.                       *)

\* Largest len(messages) given to process_batch.
MaxBatch == 5

\* Number of recovery attempts in handle_error ("while retry_count < 3").
MaxRecoveries == 3

Processors == {"AdaptiveProcessor", "SelfImprovingProcessor"}

\* Values of self.concurrent_limit when process_batch is called: the floor of
\* the adaptation rule and the constructor default.
Limits == {3, 5}

\* An invocation of process_message is <<state, retry_count>>: not made,
\* created by gather and not yet run, suspended in its asyncio.sleep, suspended
\* in the sleep of a recovery attempt (retry_count failed before it), or
\* finished with its result.
Active == {"created", "sleep", "recovery"}
Finished == {"True", "False"}

InitBatch ==
    /\ NoQueue
    /\ NoBuffer
    /\ processor \in Processors
    /\ concurrent_limit \in Limits
    /\ messages = 0
    /\ pb = NewCall
    /\ inv = <<>>
    /\ calls = <<>>
    /\ processing_window = DefaultWindow
    /\ batch_size = 10
    /\ cycles = 0
    /\ metrics = NoMetrics

\* messages[i:i + self.concurrent_limit], as 1-based positions.
Slice(i, limit, n) == {m \in 1..n : i < m /\ m <= i + limit}

InFlight == {m \in 1..messages : inv[m][1] \in Active}

\* process_batch(messages) is called: processed = 0, failed = 0, and the range
\* of the for loop is built from the concurrent_limit of that moment.
ProcessBatch(n) ==
    /\ pb.pc \in {"idle", "returned"}
    /\ messages' = n
    /\ pb' = [pc |-> "loop", i |-> 0, step |-> concurrent_limit,
              processed |-> 0, failed |-> 0]
    /\ inv' = [m \in 1..n |-> <<"none", 0>>]
    /\ calls' = [m \in 1..n |-> 0]
    /\ UNCHANGED <<queueVars, ioVars, apVars, processor, concurrent_limit>>

\* A variant of the loop body that hands every remaining message to gather at
\* once.
Gather_AllAtOnce ==
    /\ pb.pc = "loop"
    /\ pb.i < messages
    /\ LET chunk == Slice(pb.i, messages, messages)
       IN  /\ inv' = [m \in 1..messages |-> IF m \in chunk THEN <<"created", 0>> ELSE inv[m]]
           /\ calls' = [m \in 1..messages |->
                           IF m \in chunk THEN calls[m] + 1 ELSE calls[m]]
    /\ pb' = [pb EXCEPT !.pc = "gather"]
    /\ UNCHANGED <<queueVars, ioVars, apVars, processor, concurrent_limit, messages>>

\* One iteration of the for loop up to its await: the chunk is sliced with the
\* current concurrent_limit, a coroutine is made for each of its messages and
\* gather wraps them in tasks.
Gather ==
    /\ pb.pc = "loop"
    /\ pb.i < messages
    /\ LET chunk == Slice(pb.i, concurrent_limit, messages)
       IN  /\ inv' = [m \in 1..messages |-> IF m \in chunk THEN <<"created", 0>> ELSE inv[m]]
           /\ calls' = [m \in 1..messages |->
                           IF m \in chunk THEN calls[m] + 1 ELSE calls[m]]
    /\ pb' = [pb EXCEPT !.pc = "gather"]
    /\ UNCHANGED <<queueVars, ioVars, apVars, processor, concurrent_limit, messages>>

\* The task of process_message(m) runs to its first await: the simulated error
\* is raised and caught, and the recovery sleeps; or asyncio.sleep of the
\* processing window.
MessageStart(m) ==
    /\ pb.pc = "gather"
    /\ inv[m][1] = "created"
    /\ \E raised \in BOOLEAN :
          inv' = [inv EXCEPT ![m] = IF raised THEN <<"recovery", 0>> ELSE <<"sleep", 0>>]
    /\ UNCHANGED <<queueVars, ioVars, apVars, processor, concurrent_limit, messages, pb, calls>>

\* asyncio.sleep(self.processing_window) is over: return True.
MessageDone(m) ==
    /\ pb.pc = "gather"
    /\ inv[m][1] = "sleep"
    /\ inv' = [inv EXCEPT ![m] = <<"True", 0>>]
    /\ UNCHANGED <<queueVars, ioVars, apVars, processor, concurrent_limit, messages, pb, calls>>

\* A variant of the recovery whose failure is raised out of process_message
\* and ends process_batch (a gather without return_exceptions).
Recovery_RaisesOut(m) ==
    /\ pb.pc = "gather"
    /\ inv[m][1] = "recovery"
    /\ inv' = [inv EXCEPT ![m] = <<"False", 0>>]
    /\ pb' = [pb EXCEPT !.pc = "returned"]
    /\ UNCHANGED <<queueVars, ioVars, apVars, processor, concurrent_limit, messages, calls>>

\* The sleep of a recovery attempt is over.  The attempt succeeds: handle_error
\* returns and process_message returns False (AdaptiveProcessor), or
\* _handle_error returns True and so does process_message
\* (SelfImprovingProcessor).  Or it fails: the next attempt sleeps, and after
\* the last one process_message returns False.
Recovery(m) ==
    /\ pb.pc = "gather"
    /\ inv[m][1] = "recovery"
    /\ \E recovered \in BOOLEAN :
          LET retry_count == inv[m][2]
          IN  inv' = [inv EXCEPT ![m] =
                  IF recovered
                  THEN IF processor = "SelfImprovingProcessor"
                       THEN <<"True", 0>>
                       ELSE <<"False", 0>>
                  ELSE IF retry_count + 1 < MaxRecoveries
                       THEN <<"recovery", retry_count + 1>>
                       ELSE <<"False", 0>>]
    /\ UNCHANGED <<queueVars, ioVars, apVars, processor, concurrent_limit, messages, pb, calls>>

\* Every task of the chunk is done: gather returns their results, the loop
\* counts them and goes to the next value of the range.
Count ==
    /\ pb.pc = "gather"
    /\ InFlight = {}
    /\ LET chunk == Slice(pb.i, concurrent_limit, messages)
           results == [m \in chunk |-> inv[m][1]]
       IN  pb' = [pb EXCEPT
                    !.pc = "loop",
                    !.i = pb.i + pb.step,
                    !.processed = @ + Cardinality({m \in chunk : results[m] = "True"}),
                    !.failed = @ + Cardinality({m \in chunk : results[m] # "True"})]
    /\ UNCHANGED <<queueVars, ioVars, apVars, processor, concurrent_limit, messages, inv, calls>>

\* The range is exhausted: return processed, failed.  SelfImprovingProcessor
\* first applies the action of its strategy, which sets concurrent_limit.
Return ==
    /\ pb.pc = "loop"
    /\ pb.i >= messages
    /\ pb' = [pb EXCEPT !.pc = "returned"]
    /\ IF processor = "SelfImprovingProcessor"
       THEN concurrent_limit' \in Limits
       ELSE UNCHANGED concurrent_limit
    /\ UNCHANGED <<queueVars, ioVars, apVars, processor, messages, inv, calls>>

NextBatch ==
    \/ \E n \in 0..MaxBatch : ProcessBatch(n)
    \/ Gather
    \/ \E m \in 1..messages : MessageStart(m)
    \/ \E m \in 1..messages : MessageDone(m)
    \/ \E m \in 1..messages : Recovery(m)
    \/ Count
    \/ Return

SpecBatch == InitBatch /\ [][NextBatch]_vars

-----------------------------------------------------------------------------
(* AdvancedIOProcessor.process_file (src/advanced_io_processor.py): one task *)
(* puts every message of the input into the MessageBuffer, then takes        *)
(* batches out of it until it is empty and hands each to _process_batch,     *)
(* which makes a task of _process_single for every message of the batch.     *)
(*                                                                           *)
(* The buffer holds MaxSize items (1000 in the code); batch_size (10 in the  *)
(* code) and concurrent_limit (5 in the code) are scaled down with it and    *)
(* keep their order: MaxSize >= batch_size > concurrent_limit.               *)

\* Largest number of lines in the input: one more than the buffer holds.
MaxFile == MaxSize + 1

\* The task that runs process_file, as a caller of put.
FileTask == "p1"

\* AdvancedIOProcessor.__init__, and process_file up to its for loop:
\* messages = await self.io_manager.read_with_cache(input_path).
InitFile ==
    /\ NoQueue
    /\ buffer = <<>>
    /\ batch_sizes = <<>>
    /\ putters = [p \in {FileTask} |-> [pc |-> "idle", message |-> 0]]
    /\ issued = 0
    /\ batch = <<>>
    /\ got = <<>>
    /\ processor = "AdvancedIOProcessor"
    /\ concurrent_limit = 2
    /\ messages \in 0..MaxFile
    /\ pb = [pc |-> "put", i |-> 0, step |-> 0, processed |-> 0, failed |-> 0]
    /\ inv = [m \in 1..messages |-> <<"none", 0>>]
    /\ calls = [m \in 1..messages |-> 0]
    /\ processing_window = DefaultWindow
    /\ batch_size = 3
    /\ cycles = 0
    /\ metrics = NoMetrics

\* for message in messages: await self.buffer.put(message.strip()), up to the
\* first await of put that suspends: a full buffer sends the task to
\* asyncio.sleep(0.1); otherwise self.buffer.put places the item at once.
FilePut ==
    /\ pb.pc = "put"
    /\ putters[FileTask].pc = "idle"
    /\ issued < messages
    /\ issued' = issued + 1
    /\ IF Full(buffer)
       THEN /\ SetPutter(FileTask, [pc |-> "sleep", message |-> issued + 1])
            /\ UNCHANGED buffer
       ELSE /\ buffer' = Append(buffer, issued + 1)
            /\ SetPutter(FileTask, [pc |-> "idle", message |-> 0])
    /\ UNCHANGED <<queueVars, pbVars, apVars, batch_sizes, batch, got>>

\* asyncio.sleep(0.1) is over: await self.buffer.put(message).  No get has
\* been made, so the buffer is as full as before and asyncio.Queue.put waits
\* for a getter; the only caller of get_batch is this task, after the loop.
FilePutAfterSleep ==
    /\ pb.pc = "put"
    /\ putters[FileTask].pc = "sleep"
    /\ QueuePut(FileTask)
    /\ UNCHANGED <<queueVars, pbVars, apVars, batch_sizes, issued, batch, got>>

\* The for loop is over: total_processed = 0, total_failed = 0, and the while
\* loop is entered.
FilePutsDone ==
    /\ pb.pc = "put"
    /\ putters[FileTask].pc = "idle"
    /\ issued = messages
    /\ pb' = [pb EXCEPT !.pc = "loop"]
    /\ UNCHANGED <<queueVars, ioVars, apVars, processor, concurrent_limit, messages,
                   inv, calls>>

\* while not self.buffer.buffer.empty(): batch = get_batch(self.batch_size),
\* then _process_batch(batch) up to its await: asyncio.create_task for every
\* message of the batch, and gather.
FileGetBatch ==
    /\ pb.pc = "loop"
    /\ ~Empty(buffer)
    /\ LET r == BatchLoop(buffer, <<>>, batch_size)
       IN  /\ batch' = r.batch
           /\ buffer' = r.buffer
           /\ batch_sizes' = DequeAppend(batch_sizes, Len(r.batch))
           /\ got' = got \o r.batch
           /\ inv' = [m \in 1..messages |->
                         IF m \in Range(r.batch) THEN <<"created", 0>> ELSE inv[m]]
           /\ calls' = [m \in 1..messages |->
                           IF m \in Range(r.batch) THEN calls[m] + 1 ELSE calls[m]]
    /\ pb' = [pb EXCEPT !.pc = "gather"]
    /\ UNCHANGED <<queueVars, apVars, putters, issued, processor, concurrent_limit,
                   messages>>

\* The task of _process_single(m) runs to its first await: the validation
\* fails and the error record is returned, or asyncio.sleep of the processing
\* window.
SingleStart(m) ==
    /\ pb.pc = "gather"
    /\ inv[m][1] = "created"
    /\ \E valid \in BOOLEAN :
          inv' = [inv EXCEPT ![m] = IF valid THEN <<"sleep", 0>> ELSE <<"error", 0>>]
    /\ UNCHANGED <<queueVars, ioVars, apVars, processor, concurrent_limit, messages,
                   pb, calls>>

\* The sleep is over: the record with status 'success' is returned.
SingleDone(m) ==
    /\ pb.pc = "gather"
    /\ inv[m][1] = "sleep"
    /\ inv' = [inv EXCEPT ![m] = <<"success", 0>>]
    /\ UNCHANGED <<queueVars, ioVars, apVars, processor, concurrent_limit, messages,
                   pb, calls>>

\* Every task of the batch is done: _process_batch returns the results that
\* are dicts (pb.step is their number), and the loop counts them by status.
FileCount ==
    /\ pb.pc = "gather"
    /\ InFlight = {}
    /\ LET results == {m \in Range(batch) : inv[m][1] \in {"success", "error"}}
       IN  pb' = [pb EXCEPT
                    !.pc = "loop",
                    !.step = Cardinality(results),
                    !.processed = @ + Cardinality({m \in results : inv[m][1] = "success"}),
                    !.failed = @ + Cardinality({m \in results : inv[m][1] # "success"})]
    /\ UNCHANGED <<queueVars, ioVars, apVars, processor, concurrent_limit, messages,
                   inv, calls>>

\* The buffer is empty: the while loop ends and process_file returns its
\* metrics.
FileReturn ==
    /\ pb.pc = "loop"
    /\ Empty(buffer)
    /\ pb' = [pb EXCEPT !.pc = "returned"]
    /\ UNCHANGED <<queueVars, ioVars, apVars, processor, concurrent_limit, messages,
                   inv, calls>>

NextFile ==
    \/ FilePut
    \/ FilePutAfterSleep
    \/ FilePutsDone
    \/ FileGetBatch
    \/ \E m \in 1..messages : SingleStart(m)
    \/ \E m \in 1..messages : SingleDone(m)
    \/ FileCount
    \/ FileReturn

\* The event loop runs every task that is ready: the task of process_file when
\* its sleep is over or its gather is done, and the tasks of _process_single.
FairFile == WF_vars(NextFile)

SpecFile == InitFile /\ [][NextFile]_vars /\ FairFile

-----------------------------------------------------------------------------
(* The queue-driven evolution loops over a RedisMessageQueue:                *)
(*   AdaptiveMessageProcessor.evolve / process_batch                         *)
(*       (src/test_smol_loop_queue.py),                                      *)
(*   QueuedSmolLoop.run / evolve_batch (src/test_smol_loop_integration.py),  *)
(*   AdvancedSmolLoop.run / evolve_batch / process_message_batch             *)
(*       (src/test_advanced_smol_loop.py).                                   *)
(* The loop is the only client of the queue, so every queue operation runs   *)
(* to its end.  The metrics are random numbers in the code: whether they     *)
(* keep the while condition true (loop.cont) is any boolean after a cycle    *)
(* that processed messages, and is what it was after a cycle that processed  *)
(* none.                                                                     *)

\* config.max_iterations (5 and 10 in the tests).
MaxIterations == 3

\* config.batch_size (10 in the code), scaled to the number of messages.
LoopBatchSize == 2

LoopClasses == {"AdaptiveMessageProcessor", "QueuedSmolLoop", "AdvancedSmolLoop"}

\* Payloads of the messages the loop finds: a dict, or a str.
LoopPayloads == {"dict_str", "text"}

\* Retries of the messages the loop finds in pending: never nacked, or nacked
\* twice by an earlier consumer.
LoopRetries == {0, 2}

\* isinstance(payload, dict); also whether payload.copy() exists with the
\* keys the improver sets.
IsDict(p) == p \in {"dict_str", "dict_tuple", "dict_list"}

\* The pending lists the loop can find: up to MaxMsgs messages with ids str(i).
LoopQueues ==
    UNION {{[t \in 1..n |->
               ToJson([Message(Str(t - 1), f[t].payload, t, DefaultMaxRetries)
                          EXCEPT !.retries = f[t].retries])] :
              f \in [1..n -> [payload : LoopPayloads, retries : LoopRetries]]} :
           n \in 0..MaxMsgs}

\* The loop object as constructed: iteration 0, quality below the threshold.
\* k counts the dequeues of the cycle that returned a message, held is the list
\* "messages" of AdvancedSmolLoop.evolve_batch, results is the length of
\* insights / batch_results / results, bad says an insight is {}, dl0 is the
\* length of dead_letter when the cycle began, open holds the messages dequeue
\* returned in the cycle that got no ack or nack yet, extra counts the acks and
\* nacks given to a message that was not open, and cyc counts the cycles.
NewLoop(class) ==
    [class |-> class, pc |-> "while", iteration |-> 0, cont |-> TRUE, cyc |-> 0,
     k |-> 0, message |-> <<>>, held |-> <<>>, results |-> 0, bad |-> FALSE,
     processed |-> 0, failed |-> 0, dl0 |-> 0, open |-> {}, extra |-> 0]

InitEvolve ==
    /\ backend = "redis"
    /\ queue \in LoopQueues
    /\ processing = EmptyHash
    /\ dead_letter = <<>>
    /\ clock = Len(queue)
    /\ arg = <<>>
    /\ reused = FALSE
    /\ lastOp = [op |-> "init", id |-> ""]
    /\ ret = <<>>
    /\ acked = {}
    /\ delivered = [t \in 1..MaxMsgs |-> 0]
    /\ nacked = [t \in 1..MaxMsgs |-> 0]
    /\ lastFresh = 0
    /\ waitFor = {}
    /\ tasks = NoTasks
    /\ handler = AnyHandler
    /\ NoBuffer
    /\ NoProcessor
    /\ bp = <<>>
    /\ loop \in {NewLoop(class) : class \in LoopClasses}
    /\ remote = <<>>

\* What the loop leaves alone.
loopRest == <<backend, clock, acked, history, tasks, handler, ioVars, pbVars, apVars, bp,
              remote>>

\* The while condition holds: a cycle begins (process_batch / evolve_batch is
\* called).
EnterCycle ==
    /\ loop.pc = "while"
    /\ loop.iteration < MaxIterations
    /\ loop.cont
    /\ loop' = [loop EXCEPT !.pc = "dequeue", !.k = 0, !.message = <<>>, !.held = <<>>,
                            !.results = 0, !.bad = FALSE, !.processed = 0, !.failed = 0,
                            !.dl0 = Len(dead_letter), !.open = {}, !.extra = 0,
                            !.cyc = Min(@ + 1, MaxIterations + 1)]
    /\ UNCHANGED <<loopRest, queue, processing, dead_letter>>

\* The while condition does not hold: return self.current_state.
LoopReturn ==
    /\ loop.pc = "while"
    /\ ~(loop.iteration < MaxIterations /\ loop.cont)
    /\ loop' = [loop EXCEPT !.pc = "returned"]
    /\ UNCHANGED <<loopRest, queue, processing, dead_letter>>

\* for _ in range(batch_size): message = await self.queue.dequeue();
\* if not message: break.  AdvancedSmolLoop appends the message to its list and
\* goes on dequeuing; the other two go on to process it.
CycleDequeue ==
    /\ loop.pc = "dequeue"
    /\ LET reply == RedisDequeueRet(Store)
           collects == loop.class = "AdvancedSmolLoop"
       IN  /\ SetStore(RedisDequeue(Store))
           /\ loop' =
                IF reply = <<>>
                THEN [loop EXCEPT !.pc = IF collects /\ loop.held # <<>>
                                         THEN "process" ELSE "finish"]
                ELSE IF collects
                THEN [loop EXCEPT !.k = @ + 1,
                                  !.held = Append(@, reply[1]),
                                  !.open = @ \cup {reply[1].timestamp},
                                  !.pc = IF loop.k + 1 = LoopBatchSize
                                         THEN "process" ELSE "dequeue"]
                ELSE [loop EXCEPT !.k = @ + 1,
                                  !.message = reply,
                                  !.open = @ \cup {reply[1].timestamp},
                                  !.pc = "process"]
    /\ UNCHANGED loopRest

\* What the processing of message m leads to.
\* AdaptiveMessageProcessor: success_rate is uniform(0.7, 1.0) when
\*   message.retries == 0, so the message is acked; it is uniform(0.3, 0.7)
\*   otherwise and the message is acked (> 0.5) or nacked; a payload that is no
\*   dict gives the insight {}, and insight["analysis"] raises KeyError.
\* QueuedSmolLoop: the result has no "error" unless enhance_processing raises,
\*   which data.copy() does on a payload that is no dict.
\* AdvancedSmolLoop: ack when success_rate > 0.7, which depends on the strategy
\*   and on the payload's priority, nack otherwise; the except block when
\*   enhance_processing raises.
OutcomesOf(class, m) ==
    IF class = "AdaptiveMessageProcessor"
    THEN IF ~IsDict(m.payload) THEN {"raise"}
         ELSE IF m.retries = 0 THEN {"ack"} ELSE {"ack", "nack"}
    ELSE IF class = "QueuedSmolLoop"
    THEN IF IsDict(m.payload) THEN {"ack"} ELSE {"error"}
    ELSE IF IsDict(m.payload) THEN {"ack", "nack"} ELSE {"error"}

\* A variant of the settling that forgets the nack of the error paths.
Settle_ErrorUnsettled(s, outcome, message_id) ==
    IF outcome = "ack" THEN RedisAck(s, message_id)
    ELSE IF outcome = "nack" THEN RedisNack(s, message_id)
    ELSE s

\* await self.queue.ack(message.id) on success, await self.queue.nack(message.id)
\* otherwise (in the else branch, or in the except block).
Settle(s, outcome, message_id) ==
    IF outcome = "ack" THEN RedisAck(s, message_id) ELSE RedisNack(s, message_id)

\* "if message.retries >= message.max_retries" after the nack, on the Message
\* object dequeue returned: nack has incremented the retries of the object it
\* built itself from the hash entry, not of this one.
CountsAsFailed(message) == message.retries >= message.max_retries

\* The message in hand is processed and acked or nacked.
CycleSettle(outcome) ==
    /\ loop.pc = "process"
    /\ LET class == loop.class
           collects == class = "AdvancedSmolLoop"
           message == IF collects THEN Head(loop.held) ELSE loop.message[1]
           after == Settle(Store, outcome, message.id)
           settled == [loop EXCEPT
                         !.open = @ \ {message.timestamp},
                         !.extra = IF message.timestamp \in loop.open /\ after # Store
                                   THEN @ ELSE @ + 1,
                         !.results = @ + 1]
       IN  /\ outcome \in OutcomesOf(class, message)
           /\ SetStore(after)
           /\ loop' =
                IF collects
                THEN [settled EXCEPT
                        !.held = Tail(@),
                        !.processed = IF outcome = "error" THEN @ ELSE @ + 1,
                        !.failed = IF outcome = "error" THEN @ + 1 ELSE @,
                        !.pc = IF Tail(loop.held) = <<>> THEN "finish" ELSE "process"]
                ELSE [settled EXCEPT
                        !.message = <<>>,
                        !.bad = @ \/ outcome = "raise",
                        !.processed = IF outcome = "ack" THEN @ + 1 ELSE @,
                        !.failed = IF outcome \in {"nack", "error"} /\ CountsAsFailed(message)
                                   THEN @ + 1 ELSE @,
                        !.pc = IF loop.k = LoopBatchSize THEN "finish" ELSE "dequeue"]
    /\ UNCHANGED loopRest

\* The rest of the cycle.
\* AdaptiveMessageProcessor: generate_improvements divides by len(insights)
\*   (ZeroDivisionError when nothing was dequeued) and reads i["patterns"]
\*   (KeyError on an insight {}); the exception leaves process_batch and
\*   evolve.  Otherwise update_metrics, iteration += 1.
\* QueuedSmolLoop: analyze_batch returns {} for no results, metrics.update,
\*   iteration += 1.
\* AdvancedSmolLoop: "if not messages: return {...}" before anything else;
\*   otherwise the metrics are updated and iteration += 1.
CycleFinish ==
    /\ loop.pc = "finish"
    /\ \E cont \in BOOLEAN :
          loop' =
            IF loop.class = "AdaptiveMessageProcessor"
            THEN IF loop.results = 0 \/ loop.bad
                 THEN [loop EXCEPT !.pc = "raised"]
                 ELSE [loop EXCEPT !.pc = "while", !.iteration = @ + 1, !.cont = cont]
            ELSE IF loop.class = "QueuedSmolLoop"
            THEN [loop EXCEPT !.pc = "while", !.iteration = @ + 1,
                              !.cont = IF loop.results = 0 THEN @ ELSE cont]
            ELSE IF loop.results = 0
                 THEN [loop EXCEPT !.pc = "while"]
                 ELSE [loop EXCEPT !.pc = "while", !.iteration = @ + 1, !.cont = cont]
    /\ UNCHANGED <<loopRest, queue, processing, dead_letter>>

NextEvolve ==
    \/ EnterCycle
    \/ LoopReturn
    \/ CycleDequeue
    \/ \E outcome \in {"ack", "nack", "error", "raise"} : CycleSettle(outcome)
    \/ CycleFinish

\* The loop is a coroutine the event loop keeps running: every await of a
\* queue operation returns.
FairEvolve == WF_vars(NextEvolve)

SpecEvolve == InitEvolve /\ [][NextEvolve]_vars /\ FairEvolve

-----------------------------------------------------------------------------
(* One client, two queues: every call is made on a MessageQueue (the        *)
(* variables queue, processing, dead_letter, ret) and on a RedisMessageQueue *)
(* (the record remote), with the same arguments.                             *)

\* RedisMessageQueue.__init__ on an empty store (after cleanup()).
NewRemote == [queue |-> <<>>, processing |-> EmptyHash, dead_letter |-> <<>>, ret |-> <<>>]

InitBoth ==
    /\ backend = "memory"
    /\ queue = <<>>
    /\ processing = EmptyHash
    /\ dead_letter = <<>>
    /\ clock = 0
    /\ arg = <<>>
    /\ reused = FALSE
    /\ lastOp = [op |-> "init", id |-> ""]
    /\ ret = <<>>
    /\ acked = {}
    /\ delivered = [t \in 1..MaxMsgs |-> 0]
    /\ nacked = [t \in 1..MaxMsgs |-> 0]
    /\ lastFresh = 0
    /\ waitFor = {}
    /\ tasks = NoTasks
    /\ handler = AnyHandler
    /\ NoBuffer
    /\ NoProcessor
    /\ bp = <<>>
    /\ loop = <<>>
    /\ remote = NewRemote

\* What a call on both queues leaves alone.
bothRest == <<backend, reused, acked, delivered, nacked, lastFresh, waitFor, tasks, handler,
              ioVars, pbVars, apVars, bp, loop>>

\* enqueue(m) on both, m a newly constructed Message.
BothEnqueue(id, payload, maxr) ==
    /\ clock < MaxMsgs
    /\ LET m == Message(id, payload, clock + 1, maxr)
       IN  /\ SetStore(MemEnqueue(Store, m))
           /\ remote' = [RedisEnqueue(remote, m) EXCEPT !.ret = <<>>]
           /\ lastOp' = [op |-> "enqueue", id |-> m.id]
           /\ arg' = <<m>>
    /\ clock' = clock + 1
    /\ ret' = <<>>
    /\ UNCHANGED bothRest

\* dequeue() on both.
BothDequeue ==
    /\ SetStore(MemDequeue(Store))
    /\ ret' = MemDequeueRet(Store)
    /\ remote' = [RedisDequeue(remote) EXCEPT !.ret = RedisDequeueRet(remote)]
    /\ lastOp' = [op |-> "dequeue", id |-> IF ret' = <<>> THEN "" ELSE ret'[1].id]
    /\ arg' = <<>>
    /\ UNCHANGED <<bothRest, clock>>

\* ack(message_id) on both.
BothAck(message_id) ==
    /\ SetStore(MemAck(Store, message_id))
    /\ remote' = [RedisAck(remote, message_id) EXCEPT !.ret = <<>>]
    /\ lastOp' = [op |-> "ack", id |-> message_id]
    /\ arg' = <<>>
    /\ ret' = <<>>
    /\ UNCHANGED <<bothRest, clock>>

\* nack(message_id) on both.
BothNack(message_id) ==
    /\ SetStore(MemNack(Store, message_id))
    /\ remote' = [RedisNack(remote, message_id) EXCEPT !.ret = <<>>]
    /\ lastOp' = [op |-> "nack", id |-> message_id]
    /\ arg' = <<>>
    /\ ret' = <<>>
    /\ UNCHANGED <<bothRest, clock>>

NextBoth ==
    \/ \E id \in Ids, payload \in Payloads, maxr \in RetryChoices :
          BothEnqueue(id, payload, maxr)
    \/ BothDequeue
    \/ \E message_id \in Ids : BothAck(message_id)
    \/ \E message_id \in Ids : BothNack(message_id)

SpecBoth == InitBoth /\ [][NextBoth]_vars

-----------------------------------------------------------------------------
(* Properties of the queue under a client calling its operations (Spec) *)

AllMessages == Range(Pending) \cup Range(Processing) \cup Range(DeadLetter)

\* C1 as stated: in every reachable state no message id is in more than one of
\* pending, processing and dead_letter.
C1_IdsDisjoint ==
    /\ PendingIds \cap ProcessingIds = {}
    /\ PendingIds \cap DeadLetterIds = {}
    /\ ProcessingIds \cap DeadLetterIds = {}

\* C1 amended: as long as no enqueue has given an id that pending, processing
\* or dead_letter held at that time, no message id is in more than one of them.
C1_IdsDisjointWhenFresh == ~reused => C1_IdsDisjoint

\* C1 witness: two messages with fresh ids, one dead-lettered by nack and one
\* checked out.
C1_Witness ==
    /\ ~reused
    /\ dead_letter # <<>>
    /\ DOMAIN processing # {}
    /\ \E t \in 1..MaxMsgs : nacked[t] > 0

\* C2: every message has retries <= max_retries, its retries are the number of
\* nacks that found it, and it is in dead_letter if and only if its retries
\* have reached max_retries.
C2_RetriesBounded ==
    \A m \in AllMessages :
        /\ m.retries <= m.max_retries
        /\ m.retries = nacked[m.timestamp]
        /\ (m \in Range(DeadLetter)) <=> (m.retries = m.max_retries)

\* C2 witness: a message with max_retries 3 in dead_letter after three nacks,
\* and a message requeued with one retry.
C2_Witness ==
    /\ \E m \in Range(DeadLetter) : m.max_retries = 3 /\ nacked[m.timestamp] = 3
    /\ \E m \in Range(Pending) : m.retries = 1

\* C4: nack(id) for an id in processing increments that message's retries by
\* one, appends it to dead_letter if retries >= max_retries and to pending
\* otherwise, removes the id from processing and changes nothing else.
C4_NackMoves ==
    [][(lastOp'.op = "nack" /\ lastOp'.id \in DOMAIN processing) =>
          LET id == lastOp'.id
              m == [Processing[id] EXCEPT !.retries = @ + 1]
          IN  /\ DOMAIN processing' = DOMAIN processing \ {id}
              /\ \A k \in DOMAIN processing' : processing'[k] = processing[k]
              /\ IF m.retries >= m.max_retries
                 THEN DeadLetter' = Append(DeadLetter, m) /\ queue' = queue
                 ELSE Pending' = Append(Pending, m) /\ dead_letter' = dead_letter
      ]_vars

\* C4 witness: a nack has requeued a message behind another pending message
\* while a third collection entry exists.
C4_Witness ==
    /\ lastOp.op = "nack"
    /\ Len(queue) = 2
    /\ Pending[2].retries = 1
    /\ Pending[2].id = lastOp.id

\* C5: ack(id) and nack(id) for an id that is not in processing change neither
\* pending, processing, dead_letter nor any message; after ack(id) the id is
\* not in processing, so a second ack(id) changes nothing.
C5_AbsentIdNoOp ==
    [][/\ (lastOp'.op \in {"ack", "nack"} /\ lastOp'.id \notin DOMAIN processing) =>
             UNCHANGED <<queue, processing, dead_letter>>
       /\ lastOp'.op \in {"ack", "nack"} => lastOp'.id \notin DOMAIN processing'
      ]_vars

\* C5 witness: an ack was called although no ack has ever found its message,
\* while another message is checked out.
C5_Witness ==
    /\ lastOp.op = "ack"
    /\ acked = {}
    /\ DOMAIN processing # {}
    /\ queue # <<>>

\* Payloads that json.loads(json.dumps(p)) gives back unchanged.
JsonNative(p) == p \in {"dict_str", "dict_list"}

\* C6 as stated: in every queue state, enqueue(m) followed immediately by
\* dequeue() returns a message with the id and the payload of m.
C6_RoundTrip ==
    [][(lastOp.op = "enqueue" /\ lastOp'.op = "dequeue") =>
          /\ ret' # <<>>
          /\ ret'[1].id = arg[1].id
          /\ ret'[1].payload = arg[1].payload
      ]_vars

\* C6 amended: when pending is empty at the enqueue, enqueue(m) followed
\* immediately by dequeue() returns a message with the id, timestamp and
\* retries of m, and with the payload of m if the queue is the in-memory one
\* or the payload is made of JSON types.
C6_RoundTripOnEmpty ==
    [][(lastOp.op = "enqueue" /\ lastOp'.op = "dequeue" /\ Len(queue) = 1) =>
          /\ ret' # <<>>
          /\ ret'[1].id = arg[1].id
          /\ ret'[1].timestamp = arg[1].timestamp
          /\ ret'[1].retries = arg[1].retries
          /\ (backend = "memory" \/ JsonNative(arg[1].payload)) =>
                 ret'[1].payload = arg[1].payload
      ]_vars

\* C6 witness: the second message, enqueued on an empty pending while the
\* first is a dead letter, has come back from dequeue on its first delivery.
C6_Witness ==
    /\ lastOp.op = "dequeue"
    /\ ret # <<>>
    /\ ret[1].timestamp = 2
    /\ ret[1].retries = 0
    /\ dead_letter # <<>>
    /\ queue = <<>>

\* C7: dequeue returns the head of pending and removes it, and returns None
\* only when pending is empty, leaving the state unchanged; never-nacked
\* messages come out in the order of their enqueue; a requeued message comes
\* out only after every message that was pending when it was nacked.
C7_DequeueOrder ==
    [][lastOp'.op = "dequeue" =>
          IF queue = <<>>
          THEN ret' = <<>> /\ UNCHANGED <<queue, processing, dead_letter>>
          ELSE /\ ret' = <<Pending[1]>>
               /\ queue' = Tail(queue)
               /\ ret'[1].retries = 0 => ret'[1].timestamp > lastFresh
               /\ \A p \in waitFor : p[2] # ret'[1].timestamp
      ]_vars

\* C7 witness: message 1 was nacked while message 2 was pending, message 2
\* was dequeued, and message 1 has now been dequeued again.
C7_Witness ==
    /\ lastOp.op = "dequeue"
    /\ ret # <<>>
    /\ ret[1].timestamp = 1
    /\ ret[1].retries = 1
    /\ lastFresh = 2
    /\ delivered[2] = 1

IsPrefix(a, b) == Len(a) <= Len(b) /\ SubSeq(b, 1, Len(a)) = a

\* C8: no step removes or reorders an entry of dead_letter (it only grows at
\* the tail), and no message in dead_letter is in pending or processing
\* after the step.
C8_DeadLetterTerminal ==
    [][/\ IsPrefix(dead_letter, dead_letter')
       /\ \A t \in DeadLetterTs : t \notin PendingTs' \cup ProcessingTs'
      ]_vars

\* C8 witness: two dead letters, and a dequeue called after them.
C8_Witness ==
    /\ Len(dead_letter) = 2
    /\ lastOp.op = "dequeue"

\* C9: a message with max_retries = k is returned by dequeue at most k times;
\* it is in dead_letter exactly when it has been nacked k times, and then it
\* is neither in processing nor in pending.
C9_DeliveryBudget ==
    \A m \in AllMessages :
        /\ delivered[m.timestamp] <= m.max_retries
        /\ nacked[m.timestamp] < m.max_retries => m \notin Range(DeadLetter)
        /\ nacked[m.timestamp] = m.max_retries =>
               /\ m \in Range(DeadLetter)
               /\ m.timestamp \notin ProcessingTs \cup PendingTs
               /\ delivered[m.timestamp] = m.max_retries

\* C9 witness: a message with max_retries = 3 is a dead letter after three
\* deliveries and three nacks, and processing is empty.
C9_Witness ==
    /\ \E m \in Range(DeadLetter) :
          m.max_retries = 3 /\ nacked[m.timestamp] = 3 /\ delivered[m.timestamp] = 3
    /\ DOMAIN processing = {}

-----------------------------------------------------------------------------
(* Properties of the consumer loop (SpecLoop) *)

\* No task is in the middle of a queue operation.
Quiescent ==
    \A c \in Consumers : tasks[c].pc \in {"start", "dequeue", "sleep", "handler", "ended"}

\* C3: whenever no queue operation is under way, every message that was
\* enqueued and has not been acked is in pending, processing or dead_letter.
C3_NoMessageLost ==
    Quiescent =>
        \A t \in 1..clock :
            t \in acked \/ t \in PendingTs \cup ProcessingTs \cup DeadLetterTs

\* The iterations of the while loop: what a task has done since its last dequeue.
IterationLogs ==
    {<<>>, <<"dequeue">>, <<"dequeue", "returned">>, <<"dequeue", "raised">>,
     <<"dequeue", "returned", "ack">>, <<"dequeue", "raised", "nack">>}

\* C10: in process_messages a handler call that returns is followed by one ack
\* and no nack, a handler call that raises by one nack and no ack, each before
\* the loop is back at its head to dequeue again; the loop ends only by
\* cancellation, never by the handler's exception.
C10_HandlerOutcomeSettled ==
    \A c \in Consumers :
        LET T == tasks[c]
        IN  /\ T.log \in IterationLogs
            /\ T.pc = "handler" => T.log = <<"dequeue">>
            /\ T.pc = "ack" => T.log = <<"dequeue", "returned">>
            /\ T.pc \in {"nack", "nack_rpush", "nack_hdel"} =>
                   T.log = <<"dequeue", "raised">>
            /\ T.pc \in {"dequeue", "sleep", "hset"} =>
                   T.log \in {<<>>, <<"dequeue", "returned", "ack">>,
                              <<"dequeue", "raised", "nack">>}
            /\ T.pc = "ended" => T.exit = "cancelled"
            /\ T.pc # "ended" => T.exit = ""

\* C10 witness: a task is back at the head of the loop after a handler that
\* raised and its nack, the raises having made a dead letter, while the other
\* task is back after a handler that returned and its ack.
C10_Witness ==
    /\ tasks["c1"].pc = "dequeue"
    /\ tasks["c1"].log = <<"dequeue", "raised", "nack">>
    /\ tasks["c2"].pc = "dequeue"
    /\ tasks["c2"].log = <<"dequeue", "returned", "ack">>
    /\ dead_letter # <<>>

-----------------------------------------------------------------------------
(* Properties of the consumer loop under fair scheduling (SpecLive) *)

\* get_queue_stats(): the lengths of pending, processing and dead_letter.
Stats ==
    [queue |-> Len(queue), processing |-> Cardinality(ProcessingTs),
     dead_letter |-> Len(dead_letter)]

Produced == 1..clock

\* C11: with one consumer loop under fair scheduling and a handler that always
\* returns or raises, every message enqueued is eventually acked or in
\* dead_letter, and pending and processing are eventually empty for good; with
\* a handler that always succeeds every message is handed to the handler
\* exactly once, and the stats end as 0, 0, 0.
C11_EventuallySettled ==
    /\ \A t \in 1..MaxMsgs :
          (t \in Produced) ~> (t \in acked \/ t \in DeadLetterTs)
    /\ <>[](Stats.queue = 0 /\ Stats.processing = 0)
    /\ [](handler = GoodHandler => \A t \in 1..MaxMsgs : delivered[t] <= 1)
    /\ (handler = GoodHandler) =>
          <>[](/\ \A t \in Produced : delivered[t] = 1 /\ t \in acked
               /\ Stats = [queue |-> 0, processing |-> 0, dead_letter |-> 0])

\* C11 witness: both messages were enqueued, one was acked and the other is in
\* dead_letter after the handler raised on it max_retries times; pending and
\* processing are empty.
C11_Witness ==
    /\ clock = MaxMsgs
    /\ acked # {}
    /\ DeadLetterTs # {}
    /\ acked \cup DeadLetterTs = Produced
    /\ Stats.queue = 0 /\ Stats.processing = 0

-----------------------------------------------------------------------------
(* Properties of consumers sharing one store (SpecLoop) *)

\* The tasks that hold a message between its dequeue and its ack or nack.
Holding(c) == tasks[c].pc \in {"handler", "ack", "nack"}

\* C12: the queue's operations are atomic for consumers sharing the store: a
\* message a consumer holds between its dequeue and its ack or nack has its
\* entry in processing; no nack of another consumer, begun before that
\* dequeue, deletes the entry.
C12_HeldIsCheckedOut ==
    \A c \in Consumers :
        Holding(c) => tasks[c].message[1].id \in ProcessingIds

-----------------------------------------------------------------------------
(* Properties of MessageBuffer (SpecBuffer) *)

\* The put calls that have not returned, and the messages they hold.
Waiting(p) == putters[p].pc \in {"sleep", "blocked"}
Held == {putters[p].message : p \in {q \in Putters : Waiting(q)}}

\* C13: a MessageBuffer of capacity MaxSize never holds more than MaxSize
\* items; a put that finds it full neither fails nor drops its item: every
\* message given to put is in the buffer, was returned by get_batch, or is held
\* by a put that has not returned; such a put returns only by placing its item
\* in a buffer that has room; and if gets free space again and again, it
\* returns.
C13_Backpressure ==
    /\ [](Len(buffer) <= MaxSize)
    /\ [](/\ Range(buffer) \cup Range(got) \cup Held = 1..issued
          /\ Len(buffer) + Len(got) + Cardinality(Held) = issued)
    /\ [][\A p \in Putters :
            (Waiting(p) /\ ~Waiting(p)')
                => (~Full(buffer) /\ buffer' = Append(buffer, putters[p].message))]_vars
    /\ \A p \in Putters :
          ([]<>~Full(buffer)) => (Waiting(p) ~> ~Waiting(p))

\* C13 witness: the buffer is full, and a put that was waiting for room has
\* returned after a get_batch made room: its message is in the buffer.
C13_Witness ==
    /\ Full(buffer)
    /\ got # <<>>
    /\ \E i \in Range(buffer) : i > MaxSize /\ i > got[Len(got)]
    /\ \E p \in Putters : putters[p].pc = "blocked"

-----------------------------------------------------------------------------
(* Properties of process_batch (SpecBatch) *)

\* The chunk of message m: the iteration of the for loop that slices it.
ChunkOf(m) == (m - 1) \div pb.step

Invoked == {m \in 1..messages : inv[m][1] # "none"}
Done == {m \in 1..messages : inv[m][1] \in Finished}

\* C14: process_batch never has more than concurrent_limit invocations of
\* process_message in flight, the invocations in flight belong to one chunk of
\* at most concurrent_limit messages, and no message of a later chunk is
\* invoked before every invocation of the chunks before it has finished.
C14_BoundedConcurrency ==
    /\ Cardinality(InFlight) <= concurrent_limit
    /\ \A a \in InFlight, b \in InFlight : ChunkOf(a) = ChunkOf(b)
    /\ \A a \in 1..messages, b \in Invoked :
          ChunkOf(a) < ChunkOf(b) => a \in Done

\* C14 witness: the first chunk, of concurrent_limit = 3 messages, has
\* finished and the two messages of the second chunk are in flight.
C14_Witness ==
    /\ pb.pc = "gather"
    /\ concurrent_limit = 3
    /\ messages = 5
    /\ Done = {1, 2, 3}
    /\ InFlight = {4, 5}

\* C15: when process_batch returns, process_message was invoked exactly once
\* for every message and has finished for each, processed + failed is
\* len(messages), failed counts the invocations that returned False (the
\* handler raised and was not recovered) and processed the others.
C15_EveryMessageCounted ==
    pb.pc = "returned" =>
        /\ \A m \in 1..messages : calls[m] = 1 /\ m \in Done
        /\ pb.processed + pb.failed = messages
        /\ pb.failed = Cardinality({m \in 1..messages : inv[m][1] = "False"})
        /\ pb.processed = Cardinality({m \in 1..messages : inv[m][1] = "True"})

\* C15 witness: process_batch has returned for two chunks; in the first chunk
\* one invocation failed and a sibling succeeded, and a message of the second
\* chunk succeeded.
C15_Witness ==
    /\ pb.pc = "returned"
    /\ messages > pb.step
    /\ inv[1][1] = "False"
    /\ inv[2][1] = "True"
    /\ inv[messages][1] = "True"
    /\ pb.failed >= 1 /\ pb.processed >= 2

-----------------------------------------------------------------------------
(* Properties of the adaptation cycle (SpecAdapt) *)

\* C16: after any number of adaptation cycles from the constructor defaults,
\* with any metrics, 0.05 <= processing_window <= 0.2, 5 <= batch_size <= 20
\* and 3 <= concurrent_limit <= 10.
C16_ParametersBounded ==
    /\ WindowFloor <= processing_window /\ processing_window <= WindowCeiling
    /\ 5 <= batch_size /\ batch_size <= 20
    /\ 3 <= concurrent_limit /\ concurrent_limit <= 10

\* C16 witness: a floor has stopped a parameter: the window is at 0.05 after
\* cycles that shrank it, and batch_size at 5.
C16_Witness ==
    /\ processing_window = WindowFloor
    /\ batch_size = 5
    /\ cycles > 0

\* C17: a cycle changes the parameters as stated: throughput < 0.2 takes 10%
\* off processing_window, not below 0.05, whatever error_count is; otherwise
\* error_count > 2 adds 10%, not above 0.2; reliability > 0.85 adds 2 to
\* batch_size, not above 20, and reliability < 0.7 takes 2 off, not below 5;
\* quality > 0.75 adds 1 to concurrent_limit, not above 10, and quality < 0.65
\* takes 1 off, not below 3; otherwise the parameter is unchanged.
C17_CycleFunction ==
    [][cycles' = cycles + 1 =>
        LET m == metrics
            w == processing_window
            b == batch_size
            c == concurrent_limit
        IN  /\ m.throughput < 20
                => processing_window' = Max(WindowFloor, w - (w + 9) \div 10)
            /\ (m.throughput >= 20 /\ m.error_count > 2)
                => processing_window' = Min(WindowCeiling, w + w \div 10)
            /\ (m.throughput >= 20 /\ m.error_count <= 2)
                => processing_window' = w
            /\ m.reliability > 85 => batch_size' = Min(20, b + 2)
            /\ m.reliability < 70 => batch_size' = Max(5, b - 2)
            /\ (m.reliability >= 70 /\ m.reliability <= 85) => batch_size' = b
            /\ m.quality > 75 => concurrent_limit' = Min(10, c + 1)
            /\ m.quality < 65 => concurrent_limit' = Max(3, c - 1)
            /\ (m.quality >= 65 /\ m.quality <= 75) => concurrent_limit' = c
    ]_vars

\* C17 witness: one cycle with reliability 0.9, quality 0.8, throughput 0.1 and
\* error_count 3 from the defaults: batch_size 12, concurrent_limit 6,
\* processing_window 0.09, throughput having gone before error_count.
C17_Witness ==
    /\ cycles = 1
    /\ metrics = [throughput |-> 10, reliability |-> 90, quality |-> 80, error_count |-> 3]
    /\ batch_size = 12
    /\ concurrent_limit = 6
    /\ processing_window = 90000

-----------------------------------------------------------------------------
(* Properties of enqueue on invalid input (SpecInput) *)

\* C18: enqueue rejects a message with an empty id: no message with an empty
\* id is ever in pending (nor, from there, in processing or dead_letter), and
\* the call leaves the queue as it was.
C18_EmptyIdRejected ==
    /\ "" \notin PendingIds \cup ProcessingIds \cup DeadLetterIds
    /\ (lastOp = [op |-> "enqueue", id |-> ""]) => arg[1] \notin Range(Pending)

-----------------------------------------------------------------------------
(* Properties of the consumer loop when the store fails (SpecFail) *)

\* The number of store failures in the log of a task's current iteration.
StoreFailures(c) ==
    Cardinality({k \in 1..Len(tasks[c].log) : tasks[c].log[k] = "store_failed"})

\* No task is inside a queue operation, and none was cancelled.
AtRest ==
    \A c \in Consumers :
        /\ tasks[c].pc \in {"start", "sleep", "handler", "ended"}
        /\ tasks[c].exit # "cancelled"

\* C19: a store failure ends the consumer loop only after the loop has retried
\* the failing operation: a task ended by a store failure has met more than
\* one; and a store failure leaves no message in two collections once the
\* tasks are out of the queue's operations.
C19_StoreFailureRetried ==
    /\ \A c \in Consumers :
          tasks[c].exit = "store_failure" => StoreFailures(c) > 1
    /\ AtRest =>
          /\ PendingTs \cap ProcessingTs = {}
          /\ DeadLetterTs \cap ProcessingTs = {}

-----------------------------------------------------------------------------
(* Properties of BatchProcessor.process_batch (SpecTrack) *)

\* The timestamps of the messages in a list of Message objects.
TsOf(list) == {list[k].timestamp : k \in 1..Len(list)}

\* C20: when process_batch returns because the batch was declared complete,
\* pending and processing are empty, len(processed) + len(failed) is
\* batch_size, and dead_letter holds exactly the messages in failed.
C20_BatchSettled ==
    (bp.pc = "returned" /\ ~bp.timed_out) =>
        /\ Stats.queue = 0
        /\ Stats.processing = 0
        /\ Len(bp.processed) + Len(bp.failed) = bp.batch_size
        /\ DeadLetterTs = TsOf(bp.failed)

-----------------------------------------------------------------------------
(* Properties of a cancelled consumer (SpecLoop) *)

\* Task c was cancelled inside an iteration that had a message checked out:
\* dequeue had returned it, and neither ack nor nack had returned.
CancelledHolding(c) ==
    /\ tasks[c].exit = "cancelled"
    /\ tasks[c].log # <<>>
    /\ tasks[c].log[Len(tasks[c].log)] \notin {"ack", "nack"}

\* C21: the message a consumer had checked out when it was cancelled is in
\* processing with the retries it was delivered with, and is neither pending
\* (where dequeue would return it again) nor in dead_letter.
C21_AbandonedStaysCheckedOut ==
    \A c \in Consumers :
        CancelledHolding(c) =>
            LET m == tasks[c].message[1]
            IN  /\ m.id \in DOMAIN processing
                /\ Processing[m.id].retries = m.retries
                /\ m.timestamp \notin PendingTs \cup DeadLetterTs

\* C22: as soon as len(processed) + len(failed) has reached batch_size and no
\* message is awaiting a retry, processing_complete is set, whether the last
\* message was settled by a success or by its final failure.
C22_CompleteDeclared ==
    AllComplete(bp) => bp.processing_complete

-----------------------------------------------------------------------------
(* Properties of MessageBuffer.get_batch (SpecBuffer) *)

\* sum(batch_sizes)
RECURSIVE SumSeq(_)
SumSeq(q) == IF q = <<>> THEN 0 ELSE Head(q) + SumSeq(Tail(q))

\* C23: get_batch(size) can be taken in every state (it never blocks); a
\* get_batch(size) step returns the first min(size, len(buffer)) items of the
\* buffer in their order, leaves the other items in the buffer, and appends
\* the length of the batch to batch_sizes, dropping the oldest entry when
\* batch_sizes already holds HistoryMaxLen entries.
C23_GetBatch ==
    /\ [](\A size \in BatchSizes : ENABLED GetBatch(size))
    /\ [][\A size \in BatchSizes :
            GetBatch(size) =>
                LET n == IF size <= Len(buffer) THEN size ELSE Len(buffer)
                IN  /\ batch' = SubSeq(buffer, 1, n)
                    /\ buffer' = SubSeq(buffer, n + 1, Len(buffer))
                    /\ Len(batch_sizes') <= HistoryMaxLen
                    /\ batch_sizes' =
                          IF Len(batch_sizes) < HistoryMaxLen
                          THEN Append(batch_sizes, n)
                          ELSE Append(Tail(batch_sizes), n)
         ]_vars

\* C23 witness: get_batch returned a single item and emptied the buffer, with
\* batch_sizes full and its oldest entries already dropped (the batches it
\* still records hold fewer items than get_batch has returned).
C23_Witness ==
    /\ Len(batch) = 1
    /\ buffer = <<>>
    /\ Len(batch_sizes) = HistoryMaxLen
    /\ batch_sizes[HistoryMaxLen] = 1
    /\ SumSeq(batch_sizes) < Len(got)

-----------------------------------------------------------------------------
(* Properties of the queue when ids repeat (Spec) *)

\* C24: enqueue appends the message to pending whatever its id, also when
\* processing or dead_letter hold that id; a dequeue that returns a message
\* makes it the entry of its id in processing, in place of the entry the id
\* had; an ack or nack of an id in processing removes the entry, and an ack or
\* nack of an id that is not in processing changes nothing.
C24_DuplicateIds ==
    [][/\ lastOp'.op = "enqueue" =>
            /\ Len(queue') = Len(queue) + 1
            /\ Pending'[Len(queue')].id = lastOp'.id
            /\ Pending'[Len(queue')].timestamp = arg'[1].timestamp
            /\ SubSeq(queue', 1, Len(queue)) = queue
            /\ processing' = processing
            /\ dead_letter' = dead_letter
       /\ (lastOp'.op = "dequeue" /\ ret' # <<>>) =>
            /\ DOMAIN processing' = DOMAIN processing \cup {ret'[1].id}
            /\ Processing'[ret'[1].id].timestamp = ret'[1].timestamp
            /\ \A k \in DOMAIN processing \ {ret'[1].id} : processing'[k] = processing[k]
       /\ (lastOp'.op \in {"ack", "nack"} /\ lastOp'.id \in DOMAIN processing) =>
            DOMAIN processing' = DOMAIN processing \ {lastOp'.id}
       /\ (lastOp'.op \in {"ack", "nack"} /\ lastOp'.id \notin DOMAIN processing) =>
            /\ queue' = queue
            /\ processing' = processing
            /\ dead_letter' = dead_letter
      ]_vars

\* C24 witness: two messages were each delivered once, only the second was
\* ever acknowledged and none was nacked, yet processing, pending and
\* dead_letter are empty after an ack: the second had the id of the first and
\* replaced it in processing.
C24_Witness ==
    /\ delivered[1] = 1
    /\ delivered[2] = 1
    /\ acked = {2}
    /\ \A t \in 1..MaxMsgs : nacked[t] = 0
    /\ queue = <<>>
    /\ DOMAIN processing = {}
    /\ dead_letter = <<>>
    /\ lastOp.op = "ack"
    /\ reused

-----------------------------------------------------------------------------
(* Properties of AdvancedIOProcessor.process_file (SpecFile) *)

\* C25: process_file returns, whatever the number of input messages, and when
\* it has returned total_processed + total_failed is that number.
C25_FileTerminates ==
    <>(pb.pc = "returned" /\ pb.processed + pb.failed = messages)

\* C30: at no time are more than concurrent_limit invocations of
\* _process_single in flight, and _process_batch returns one result record for
\* every message of the batch it was given.
C30_BoundedFanOut ==
    /\ Cardinality(InFlight) <= concurrent_limit
    /\ (pb.pc = "loop" /\ batch # <<>>) => pb.step = Len(batch)

-----------------------------------------------------------------------------
(* Properties of the queue-driven evolution loops.                           *)

\* C26: each queue-driven evolution loop returns its final state without
\* error, also when the queue becomes empty before the threshold is reached.
C26_LoopReturns == <>(loop.pc = "returned")

\* C27: when a batch cycle of AdaptiveMessageProcessor or QueuedSmolLoop over
\* the Redis queue has returned, its failed result is the number of messages
\* the cycle's nacks moved to dead_letter.
C27_FailedIsDeadLettered ==
    (/\ loop.class \in {"AdaptiveMessageProcessor", "QueuedSmolLoop"}
     /\ loop.pc = "while"
     /\ loop.cyc > 0)
        => loop.failed = Len(dead_letter) - loop.dl0

\* C29: between the batch cycles every message dequeue returned has received
\* exactly one ack or nack: none is left without, none was settled a second
\* time or in vain, and the processing hash is empty.
C29_SettledOnce ==
    loop.pc \in {"while", "returned", "raised"}
        => /\ loop.open = {}
           /\ loop.extra = 0
           /\ processing = EmptyHash

\* A cycle has dequeued a full batch, acked one message and dead-lettered the
\* other by its nack, and has returned.
C29_Witness ==
    /\ loop.pc = "while"
    /\ loop.k = LoopBatchSize
    /\ loop.results = LoopBatchSize
    /\ Len(dead_letter) = loop.dl0 + 1
    /\ queue = <<>>
    /\ processing = EmptyHash

-----------------------------------------------------------------------------
(* Properties of the two queues given the same calls.                        *)

\* The id and the retries of a message.
IdRetries(m) == <<m.id, m.retries>>

\* The lists l of Messages and j of JSON texts hold the same ids with the same
\* retries in the same order.
SameList(l, j) ==
    /\ Len(l) = Len(j)
    /\ \A k \in DOMAIN l : IdRetries(l[k]) = IdRetries(FromJson(j[k]))

\* The same ids with the same retries in pending, processing and dead_letter.
SameCollections ==
    /\ SameList(queue, remote.queue)
    /\ SameList(dead_letter, remote.dead_letter)
    /\ DOMAIN processing = DOMAIN remote.processing
    /\ \A i \in DOMAIN processing :
          IdRetries(processing[i]) = IdRetries(FromJson(remote.processing[i]))

\* Both calls returned None, or messages with the same id and retries.
SameReply ==
    /\ (ret = <<>>) = (remote.ret = <<>>)
    /\ ret # <<>> => IdRetries(ret[1]) = IdRetries(remote.ret[1])

\* C28 as stated: on the same calls the two queues return messages with the
\* same id, payload and retries from every dequeue and hold the same ids with
\* the same retries, in the same order, after every call.
C28_Equivalent ==
    /\ SameCollections
    /\ SameReply
    /\ ret # <<>> => ret[1].payload = remote.ret[1].payload

\* C28: on the same calls, every enqueue given a newly constructed Message,
\* the two queues return messages with the same id and retries from every
\* dequeue, the Redis queue's payload being the JSON round trip of the
\* in-memory queue's, and hold the same ids with the same retries, in the
\* same order, after every call.
C28_EquivalentUpToJson ==
    /\ SameCollections
    /\ SameReply
    /\ ret # <<>> => JsonLoads(JsonDumps(ret[1].payload)) = remote.ret[1].payload

\* Both queues have dead-lettered a message and then returned a nacked
\* message with a tuple in its payload from a dequeue.
C28_Witness ==
    /\ lastOp.op = "dequeue"
    /\ ret # <<>>
    /\ remote.ret # <<>>
    /\ ret[1].retries > 0
    /\ ret[1].payload = "dict_tuple"
    /\ dead_letter # <<>>
    /\ remote.dead_letter # <<>>

====
